---- MODULE Spec2Model ----
(***************************************************************************)
(* Price prediction engine of the Restmage backend                         *)
(* (backend/app/services/ml_service.py, backend/app/routers/predictor.py,  *)
(* backend/app/schemas/prediction.py).                                     *)
(*                                                                         *)
(* Representation of Python values.                                        *)
(*  - A dict is a function whose DOMAIN is the set of keys present.        *)
(*  - A scalar is a record [t, n, u, s, l]: t is the Python type           *)
(*    ("none", "int", "bool", "float", "str", "list"), n the integer or    *)
(*    boolean payload, s the characters of a str, l the items of a list.   *)
(*  - A str is the tuple of its characters, so that lower() is computed    *)
(*    character by character.                                              *)
(*  - A float f is held as n = f * AreaDen (a decimal with a resolution of *)
(*    1/AreaDen).  u records how the binary product fl(f * 100) lies with  *)
(*    respect to the decimal product n/2: one ulp below (-1), exactly on   *)
(*    it (0), or one ulp above (1).                                        *)
(*  - Money inside predict_heuristic is a record [h, u, e]: h is the value *)
(*    in half units, u the sub-ulp residue inherited from the area         *)
(*    product, e the bit length at which that residue is representable.    *)
(*  - confidence is held in hundredths (85 for 0.85, 90 for 0.90).         *)
(***************************************************************************)
EXTENDS Integers, Sequences, FiniteSets, TLC

(***************************************************************************)
(* Bounds of the model.                                                    *)
(***************************************************************************)
MaxBatch == 2
MaxAmenities == 2
MaxYears == 1
CurrentYear == 2026

\* datetime.now().year, read by predict_heuristic, by the validator of
\* yearBuilt and by the prediction script whenever they run.
VARIABLE clock

\* The status with which fastapi.security.HTTPBearer refuses a request that
\* has no Authorization header (core/deps.py, line 17: HTTPBearer() with
\* auto_error left on).  The installed framework fixes it, not the source:
\* 403 in the releases that answer "Not authenticated" as forbidden, 401 in
\* the later ones.
VARIABLE not_authenticated

\* The tasks of the process when load_model and a prediction are followed
\* statement by statement: who holds the thread, where each task is and
\* what the prediction has read so far.
VARIABLE tasks

(***************************************************************************)
(* Python scalars.                                                         *)
(***************************************************************************)
NoneV == [t |-> "none", n |-> 0, u |-> 0, s |-> <<>>, l |-> <<>>]
IntV(i) == [t |-> "int", n |-> i, u |-> 0, s |-> <<>>, l |-> <<>>]
BoolV(b) == [t |-> "bool", n |-> IF b THEN 1 ELSE 0, u |-> 0, s |-> <<>>, l |-> <<>>]
FloatV(k, bias) == [t |-> "float", n |-> k, u |-> bias, s |-> <<>>, l |-> <<>>]
StrV(str) == [t |-> "str", n |-> 0, u |-> 0, s |-> str, l |-> <<>>]
ListV(items) == [t |-> "list", n |-> 0, u |-> 0, s |-> <<>>, l |-> items]

AreaDen == 2 * 100

EmptyDict == [k \in {} |-> NoneV]

\* bool(x)
Truthy(v) ==
    CASE v.t = "none" -> FALSE
      [] v.t \in {"int", "bool", "float"} -> v.n # 0
      [] v.t = "str" -> v.s # <<>>
      [] v.t = "list" -> v.l # <<>>

\* d.get(key, default)
Get(d, key, default) == IF key \in DOMAIN d THEN d[key] ELSE default

\* d.get(k1) or d.get(k2, default)
GetOr(d, k1, k2, default) ==
    IF Truthy(Get(d, k1, NoneV)) THEN d[k1] ELSE Get(d, k2, default)

IsNum(v) == v.t \in {"int", "float"}

(***************************************************************************)
(* str.lower(), character by character.                                    *)
(***************************************************************************)
UpperToLower ==
    [A |-> "a", B |-> "b", C |-> "c", D |-> "d", E |-> "e", F |-> "f",
     G |-> "g", H |-> "h", I |-> "i", J |-> "j", K |-> "k", L |-> "l",
     M |-> "m", N |-> "n", O |-> "o", P |-> "p", Q |-> "q", R |-> "r",
     S |-> "s", T |-> "t", U |-> "u", V |-> "v", W |-> "w", X |-> "x",
     Y |-> "y", Z |-> "z"]

LowerChar(c) == IF c \in DOMAIN UpperToLower THEN UpperToLower[c] ELSE c

Lower(str) == [i \in 1..Len(str) |-> LowerChar(str[i])]

(***************************************************************************)
(* The string literals of the source.                                      *)
(***************************************************************************)
s_urban == <<"u", "r", "b", "a", "n">>
s_suburban == <<"s", "u", "b", "u", "r", "b", "a", "n">>
s_rural == <<"r", "u", "r", "a", "l">>
s_excellent == <<"e", "x", "c", "e", "l", "l", "e", "n", "t">>
s_good == <<"g", "o", "o", "d">>
s_fair == <<"f", "a", "i", "r">>
s_poor == <<"p", "o", "o", "r">>
s_garage == <<"g", "a", "r", "a", "g", "e">>
s_garden == <<"g", "a", "r", "d", "e", "n">>
s_pool == <<"p", "o", "o", "l">>
s_basement == <<"b", "a", "s", "e", "m", "e", "n", "t">>
s_balcony == <<"b", "a", "l", "c", "o", "n", "y">>
s_yes == <<"y", "e", "s">>
s_true == <<"t", "r", "u", "e">>
s_1 == <<"1">>

(***************************************************************************)
(* MLService.PRICE_MODEL                                                   *)
(***************************************************************************)
PRICE_MODEL ==
    [basePrice |-> 50000,
     coefficients |->
        [areaPerSqFt |-> 100,
         bedrooms |-> 15000,
         bathrooms |-> 10000,
         age |-> -2000,
         location |-> (s_urban :> 50000) @@ (s_suburban :> 30000)
                        @@ (s_rural :> 10000),
         condition |-> (s_excellent :> 40000) @@ (s_good :> 20000)
                        @@ (s_fair :> 0) @@ (s_poor :> -20000),
         amenities |-> (s_garage :> 15000) @@ (s_garden :> 10000)
                        @@ (s_pool :> 25000) @@ (s_basement :> 20000)
                        @@ (s_balcony :> 8000)]]

(***************************************************************************)
(* Arithmetic.                                                             *)
(***************************************************************************)
Abs(i) == IF i < 0 THEN -i ELSE i

Max(a, b) == IF a >= b THEN a ELSE b

RECURSIVE BitLen(_)
BitLen(i) == IF i = 0 THEN 0 ELSE 1 + BitLen(i \div 2)

\* round(num / den) as Python 3 rounds: to nearest, ties to even.
RoundDiv(num, den) ==
    LET q == num \div den
        r == num % den
    IN  IF 2 * r < den THEN q
        ELSE IF 2 * r > den THEN q + 1
        ELSE IF q % 2 = 0 THEN q ELSE q + 1

\* A Python int as money.
Exact(i) == [h |-> 2 * i, u |-> 0, e |-> 0]

\* number * int coefficient (area * areaPerSqFt).  An int stays exact; a
\* float product carries the residue of its binary rounding.
Times(v, c) ==
    IF v.t = "int" THEN Exact(v.n * c)
    ELSE [h |-> (v.n * c * 2) \div AreaDen, u |-> v.u,
          e |-> BitLen(Abs((v.n * c * 2) \div AreaDen))]

\* float + float in binary floating point: a residue of one ulp is lost as
\* soon as the sum needs more bits than the operand that carried it.
FAdd(a, b) ==
    LET h == a.h + b.h
        u == IF a.u # 0 THEN a.u ELSE b.u
        e == IF a.u # 0 THEN a.e ELSE b.e
    IN  IF u # 0 /\ BitLen(Abs(h)) > e THEN [h |-> h, u |-> 0, e |-> 0]
        ELSE [h |-> h, u |-> u, e |-> e]

\* round(x) of a money value.
Round(x) ==
    IF x.h % 2 = 0 \/ x.u = 0 THEN RoundDiv(x.h, 2)
    ELSE IF x.u < 0 THEN (x.h - 1) \div 2 ELSE (x.h + 1) \div 2

(***************************************************************************)
(* Results of a call: a returned value or a propagated exception.          *)
(***************************************************************************)
Raise == [raised |-> TRUE, value |-> EmptyDict]

Return(v) == [raised |-> FALSE, value |-> v]

(***************************************************************************)
(* MLService.predict_heuristic                                             *)
(***************************************************************************)
\* isinstance(garage, bool) / isinstance(garage, str) chain.
has_garage_field(garage) ==
    IF garage.t = "bool" THEN garage.n = 1
    ELSE IF garage.t = "str" THEN Lower(garage.s) \in {s_yes, s_true, s_1}
    ELSE FALSE

\* any(str(a).lower() == 'garage' for a in amenities)
garage_in_amenities(amenities) ==
    \E i \in 1..Len(amenities) : Lower(amenities[i]) = s_garage

\* other_amenities without the guard against double counting.
RECURSIVE other_amenities_with_garage(_)
other_amenities_with_garage(amenities) ==
    IF amenities = <<>> THEN 0
    ELSE Get(PRICE_MODEL.coefficients.amenities, Lower(Head(amenities)), 0)
         + other_amenities_with_garage(Tail(amenities))

RECURSIVE other_amenities(_)
other_amenities(amenities) ==
    IF amenities = <<>> THEN 0
    ELSE LET amenity_lower == Lower(Head(amenities))
         IN  (IF amenity_lower # s_garage
              THEN Get(PRICE_MODEL.coefficients.amenities, amenity_lower, 0)
              ELSE 0) + other_amenities(Tail(amenities))

\* location_premium_of with the lookup made on the text as supplied.
location_premium_case_sensitive(location) ==
    Get(PRICE_MODEL.coefficients.location, location.s, 0)

\* PRICE_MODEL["coefficients"]["location"].get(location.lower(), 0)
location_premium_of(location) ==
    Get(PRICE_MODEL.coefficients.location, Lower(location.s), 0)

\* condition_adjustment_of with the adjustment of "good" on a miss.
condition_adjustment_default_good(condition) ==
    Get(PRICE_MODEL.coefficients.condition, Lower(condition.s),
        PRICE_MODEL.coefficients.condition[s_good])

\* PRICE_MODEL["coefficients"]["condition"].get(condition.lower(), 0)
condition_adjustment_of(condition) ==
    Get(PRICE_MODEL.coefficients.condition, Lower(condition.s), 0)

\* total_price with the floors term left out of the sum.
total_price_without_floors(c) ==
    LET s1 == FAdd(c.area_contrib, Exact(c.bedroom_contrib))
        s2 == FAdd(s1, Exact(c.bathroom_contrib))
        s4 == FAdd(s2, Exact(c.age_adjustment))
        s5 == FAdd(s4, Exact(c.location_premium))
        s6 == FAdd(s5, Exact(c.condition_adjustment))
        s7 == FAdd(s6, Exact(c.garage_contrib))
        s8 == FAdd(s7, Exact(c.other_amenities_contrib))
    IN  FAdd(Exact(PRICE_MODEL.basePrice), s8)

\* price += (area_contrib + ... + other_amenities_contrib), c holding the
\* nine contributions under their names in the source: the additions
\* of lines 236-238, left to right, then the addition to the base price.
total_price(c) ==
    LET s1 == FAdd(c.area_contrib, Exact(c.bedroom_contrib))
        s2 == FAdd(s1, Exact(c.bathroom_contrib))
        s3 == FAdd(s2, c.floor_contrib)
        s4 == FAdd(s3, Exact(c.age_adjustment))
        s5 == FAdd(s4, Exact(c.location_premium))
        s6 == FAdd(s5, Exact(c.condition_adjustment))
        s7 == FAdd(s6, Exact(c.garage_contrib))
        s8 == FAdd(s7, Exact(c.other_amenities_contrib))
    IN  FAdd(Exact(PRICE_MODEL.basePrice), s8)

\* age_of with an explicit age taken before yearBuilt is looked at.
age_of_explicit_first(features) ==
    LET year_built == GetOr(features, "yearBuilt", "YearBuilt", NoneV)
    IN  IF "age" \in DOMAIN features /\ features["age"].t # "none"
        THEN features["age"]
        ELSE IF Truthy(year_built)
        THEN (IF IsNum(year_built) THEN IntV(clock - year_built.n) ELSE NoneV)
        ELSE IntV(0)

\* age, lines 192-197.  None stands for the TypeError of
\* current_year - year_built
age_of(features) ==
    LET year_built == GetOr(features, "yearBuilt", "YearBuilt", NoneV)
    IN  IF Truthy(year_built)
        THEN (IF IsNum(year_built) THEN IntV(clock - year_built.n) ELSE NoneV)
        ELSE IF "age" \in DOMAIN features THEN features["age"]
        ELSE IntV(0)

predict_heuristic(features) ==
    LET coef == PRICE_MODEL.coefficients
        area == GetOr(features, "area", "Area", IntV(0))
        bedrooms == GetOr(features, "bedrooms", "Bedrooms", IntV(0))
        bathrooms == GetOr(features, "bathrooms", "Bathrooms", IntV(0))
        floors == GetOr(features, "floors", "Floors", IntV(1))
        age == age_of(features)
        location == GetOr(features, "location", "Location", StrV(<<>>))
        condition == GetOr(features, "condition", "Condition", StrV(<<>>))
        garage == GetOr(features, "garage", "Garage", NoneV)
        amenities == Get(features, "amenities", ListV(<<>>))
        \* the operand types with which no statement raises
        typed == /\ IsNum(area) /\ bedrooms.t = "int" /\ bathrooms.t = "int"
                 /\ floors.t = "int" /\ age.t = "int"
                 /\ location.t = "str" /\ condition.t = "str"
                 /\ amenities.t \in {"list", "none"}
    IN  IF ~typed THEN Raise
        ELSE
        LET area_contrib == Times(area, coef.areaPerSqFt)
            bedroom_contrib == bedrooms.n * coef.bedrooms
            bathroom_contrib == bathrooms.n * coef.bathrooms
            \* (floors - 1) * (15000 * 0.5), in half units
            floor_contrib == [h |-> (floors.n - 1) * coef.bedrooms, u |-> 0, e |-> 0]
            age_adjustment == age.n * coef.age
            location_premium == location_premium_of(location)
            condition_adjustment == condition_adjustment_of(condition)
            has_garage == \/ has_garage_field(garage)
                          \/ /\ Truthy(amenities)
                             /\ garage_in_amenities(amenities.l)
            garage_contrib == IF has_garage THEN coef.amenities[s_garage] ELSE 0
            other_amenities_contrib ==
                IF Truthy(amenities) THEN other_amenities(amenities.l) ELSE 0
            price == total_price([area_contrib |-> area_contrib,
                                  bedroom_contrib |-> bedroom_contrib,
                                  bathroom_contrib |-> bathroom_contrib,
                                  floor_contrib |-> floor_contrib,
                                  age_adjustment |-> age_adjustment,
                                  location_premium |-> location_premium,
                                  condition_adjustment |-> condition_adjustment,
                                  garage_contrib |-> garage_contrib,
                                  other_amenities_contrib |-> other_amenities_contrib])
            \* price * 0.1, price -/+ that, as exact decimals: 9/20 and
            \* 11/20 of the value in half units
            min_price == Max(0, 9 * price.h)
            max_price == 11 * price.h
        IN  Return(
              [estimatedPrice |-> Round(price),
               priceRange |-> [min |-> RoundDiv(min_price, 20),
                               max |-> RoundDiv(max_price, 20)],
               confidence |-> 85,
               breakdown |->
                 [basePrice |-> PRICE_MODEL.basePrice,
                  areaContribution |-> Round(area_contrib),
                  bedroomContribution |-> bedroom_contrib,
                  bathroomContribution |-> bathroom_contrib,
                  floorsContribution |-> Round(floor_contrib),
                  ageAdjustment |-> age_adjustment,
                  locationPremium |-> location_premium,
                  conditionAdjustment |-> condition_adjustment,
                  garageContribution |-> garage_contrib,
                  otherAmenitiesContribution |-> other_amenities_contrib]])

(***************************************************************************)
(* State of the process: the module-level MLService instance, and the last *)
(* call made on it with what the call returned.                            *)
(***************************************************************************)
VARIABLES
    model,          \* MLService.model: NoModel or the loaded artifact
    model_loaded,   \* MLService.model_loaded
    encoders,       \* MLService.encoders: column name -> encoder
    op,             \* the call whose result is being handed back, or "idle"
    args,           \* its argument
    art,            \* what pandas and the artifact did during the call
    ret,            \* what it returned: Return(value) or Raise
    http            \* the request handler that made the call, if any

vars == <<model, model_loaded, encoders, op, args, art, ret, http, clock,
          not_authenticated, tasks>>

NoModel == "None"

Artifacts == {"model.pkl"}

EncoderFiles == {"encoder.pkl"}

NoEncoders == [col \in {} |-> "encoder.pkl"]

(***************************************************************************)
(* MLService.load_model.  env describes the two files on disk.             *)
(***************************************************************************)
FileStates == {"absent", "ok", "corrupt"}

LoadEnvs == [model_file : FileStates, encoder_file : FileStates,
             artifact : Artifacts, encoder : EncoderFiles]

load_model_result(st, env) ==
    IF env.model_file = "absent"
    THEN [model |-> st.model, model_loaded |-> st.model_loaded,
          encoders |-> st.encoders, ret |-> FALSE]
    ELSE IF env.model_file = "corrupt" \/ env.encoder_file = "corrupt"
    THEN \* joblib.load raised: the except branch
         [model |-> NoModel, model_loaded |-> FALSE,
          encoders |-> st.encoders, ret |-> FALSE]
    ELSE [model |-> env.artifact, model_loaded |-> TRUE,
          encoders |->
            IF env.encoder_file = "ok"
            THEN [col \in DOMAIN st.encoders \cup {"Location", "Condition", "Garage"}
                     |-> IF col \in {"Location", "Condition", "Garage"}
                         THEN env.encoder ELSE st.encoders[col]]
            ELSE st.encoders,
          ret |-> TRUE]

\* MLService.__init__ up to the load_model call
Constructed == [model |-> NoModel, model_loaded |-> FALSE, encoders |-> NoEncoders]

NoArt == [pre |-> "ok", out |-> "none", rows |-> <<>>]

NoRequest ==
    [endpoint |-> "none", credentials |-> "none", status |-> 0,
     engine_called |-> FALSE]

NotAuthenticatedStatuses == {401, 403}

\* A prediction that has read nothing yet.
IdlePrediction ==
    [pc |-> "idle", kind |-> "none", loaded |-> FALSE, model |-> NoModel,
     encoders |-> NoEncoders, used |-> NoModel, result |-> "none"]

\* No task is being followed: every call runs from its first statement to
\* its return in one step.
NoTasks ==
    [running |-> "none",
     load |-> [pc |-> "idle", env |-> <<>>, wrote |-> FALSE, col |-> 0,
               ret |-> FALSE],
     pred |-> IdlePrediction]

Init ==
    \E env \in LoadEnvs :
        LET r == load_model_result(Constructed, env)
        IN  /\ model = r.model
            /\ model_loaded = r.model_loaded
            /\ encoders = r.encoders
            /\ op = "__init__"
            /\ args = env
            /\ art = NoArt
            /\ ret = Return(r.ret)
            /\ http = NoRequest
            /\ clock = CurrentYear
            /\ not_authenticated \in NotAuthenticatedStatuses
            /\ tasks = NoTasks

load_model ==
    /\ op = "idle"
    /\ \E env \in LoadEnvs :
        LET st == [model |-> model, model_loaded |-> model_loaded,
                   encoders |-> encoders]
            r == load_model_result(st, env)
        IN  /\ model' = r.model
            /\ model_loaded' = r.model_loaded
            /\ encoders' = r.encoders
            /\ op' = "load_model"
            /\ args' = env
            /\ art' = NoArt
            /\ ret' = Return(r.ret)
            /\ http' = NoRequest
            /\ UNCHANGED <<clock, not_authenticated, tasks>>

(***************************************************************************)
(* Values the artifact's predict call can put in a row of its result: a    *)
(* finite float (held as an integer), nan, inf, or a non-scalar row.       *)
(***************************************************************************)
Num(i) == [k |-> "num", v |-> i]
Nan == [k |-> "nan", v |-> 0]
Inf == [k |-> "inf", v |-> 0]
Vec == [k |-> "vec", v |-> 0]
NoneML == [k |-> "none", v |-> 0]

\* float(x) raises TypeError on a non-scalar
FloatRaises(x) == x.k = "vec"

\* round(x) raises ValueError on nan and OverflowError on inf
RoundRaises(x) == x.k \in {"nan", "inf"}

EmptyBreakdown == [name \in {} |-> 0]

\* The prediction dict built from a learned-model estimate
\* (predict, lines 283-291; batch_predict, lines 334-342).
ml_result(ml_prediction) ==
    [estimatedPrice |-> ml_prediction.v,
     priceRange |-> [min |-> RoundDiv(ml_prediction.v * 95, 100),
                     max |-> RoundDiv(ml_prediction.v * 105, 100)],
     confidence |-> 90,
     breakdown |-> EmptyBreakdown]

(***************************************************************************)
(* MLService.predict_ml.  a is the outcome of the library calls:           *)
(* a.pre = "raise" when pd.DataFrame / preprocess_features raises,         *)
(* a.out = "raise" when model.predict raises, else a.rows is its result.   *)
(***************************************************************************)
\* predict_ml returning 0.0 instead of None when the library call raises.
predict_ml_zero_on_error(features, a) ==
    IF ~model_loaded \/ model = NoModel THEN NoneML
    ELSE IF a.pre = "raise" \/ a.out = "raise" THEN Num(0)
    ELSE IF a.rows = <<>> THEN NoneML
    ELSE IF FloatRaises(a.rows[1]) THEN NoneML
    ELSE a.rows[1]

predict_ml(features, a) ==
    IF ~model_loaded \/ model = NoModel THEN NoneML
    ELSE IF a.pre = "raise" \/ a.out = "raise" THEN NoneML
    ELSE IF a.rows = <<>> THEN NoneML              \* [0] raises IndexError
    ELSE IF FloatRaises(a.rows[1]) THEN NoneML
    ELSE a.rows[1]

(***************************************************************************)
(* MLService.predict                                                       *)
(***************************************************************************)
predict_result(features, a) ==
    LET ml_prediction == predict_ml(features, a)
    IN  IF ml_prediction # NoneML
        THEN IF RoundRaises(ml_prediction) THEN Raise
             ELSE Return([success |-> TRUE,
                          prediction |-> ml_result(ml_prediction),
                          modelUsed |-> "ml_model",
                          currency |-> "INR",
                          timestamp |-> "utcnow"])
        ELSE LET h == predict_heuristic(features)
             IN  IF h.raised THEN Raise
                 ELSE Return([success |-> TRUE,
                              prediction |-> h.value,
                              modelUsed |-> "heuristic",
                              currency |-> "INR",
                              timestamp |-> "utcnow"])

(***************************************************************************)
(* MLService.batch_predict                                                 *)
(***************************************************************************)
Min(a, b) == IF a <= b THEN a ELSE b

\* The item appended for (idx, prop, ml_pred) in the learned-model loop.
ml_item(idx, prop, ml_pred) ==
    [propertyId |-> idx, features |-> prop, prediction |-> ml_result(ml_pred)]

\* Number of items the learned-model loop appends before it stops: all of
\* zip(properties, ml_predictions), or those before the first row on which
\* float() or round() raises.
ml_appended(properties, rows) ==
    LET n == Min(Len(properties), Len(rows))
        bad == {i \in 1..n : FloatRaises(rows[i]) \/ RoundRaises(rows[i])}
    IN  IF bad = {} THEN n
        ELSE (CHOOSE i \in bad : \A j \in bad : i <= j) - 1

ml_loop_raises(properties, rows) ==
    \E i \in 1..Min(Len(properties), Len(rows)) :
        FloatRaises(rows[i]) \/ RoundRaises(rows[i])

heuristic_item(idx, prop) ==
    [propertyId |-> idx, features |-> prop,
     prediction |-> predict_heuristic(prop).value]

\* empty_batch_result as an empty success.
empty_batch_success ==
    Return([success |-> TRUE, modelUsed |-> "heuristic", predictions |-> <<>>,
            currency |-> "INR", timestamp |-> "utcnow"])

\* The value returned for an empty list, lines 315-318.
empty_batch_result ==
    Return([success |-> FALSE,
            error |-> "No properties provided for prediction"])

batch_predict_result(properties, a) ==
    IF properties = <<>> THEN empty_batch_result
    ELSE
    LET try_ml == model_loaded /\ model # NoModel
        ml_failed == \/ a.pre = "raise"
                     \/ a.out = "raise"
                     \/ ml_loop_raises(properties, a.rows)
        \* predictions as the learned-model pass leaves it
        ml_predictions ==
            IF ~try_ml \/ a.pre = "raise" \/ a.out = "raise" THEN <<>>
            ELSE [i \in 1..ml_appended(properties, a.rows)
                    |-> ml_item(i, properties[i], a.rows[i])]
    IN  IF try_ml /\ ~ml_failed
        THEN Return([success |-> TRUE,
                     modelUsed |-> "ml_model",
                     predictions |-> ml_predictions,
                     currency |-> "INR",
                     timestamp |-> "utcnow"])
        ELSE IF \E i \in 1..Len(properties) : predict_heuristic(properties[i]).raised
        THEN Raise
        ELSE Return([success |-> TRUE,
                     modelUsed |-> "heuristic",
                     predictions |->
                        ml_predictions \o
                        [i \in 1..Len(properties) |-> heuristic_item(i, properties[i])],
                     currency |-> "INR",
                     timestamp |-> "utcnow"])

(***************************************************************************)
(* MLService.get_market_trends                                             *)
(***************************************************************************)
\* The tables written out a second time, with the urban premium of an older
\* price list.
get_market_trends_own_tables ==
    Return([success |-> TRUE,
            trends |->
              [averagePricePerSqFt |-> 100,
               locationPremiums |-> (s_urban :> 45000) @@ (s_suburban :> 30000)
                                      @@ (s_rural :> 10000),
               conditionAdjustments |-> PRICE_MODEL.coefficients.condition,
               amenityValues |-> PRICE_MODEL.coefficients.amenities],
            lastUpdated |-> "utcnow",
            message |-> "Market trends based on current pricing model"])

get_market_trends_result ==
    Return([success |-> TRUE,
            trends |->
              [averagePricePerSqFt |-> PRICE_MODEL.coefficients.areaPerSqFt,
               locationPremiums |-> PRICE_MODEL.coefficients.location,
               conditionAdjustments |-> PRICE_MODEL.coefficients.condition,
               amenityValues |-> PRICE_MODEL.coefficients.amenities],
            lastUpdated |-> "utcnow",
            message |-> "Market trends based on current pricing model"])

(***************************************************************************)
(* Inputs.  A feature dict is assembled from one choice per group of keys. *)
(***************************************************************************)
BoundedSeq(S, n) == UNION {[1..k -> S] : k \in 0..n}

\* area, bedrooms, bathrooms, floors.  150.295 * 100 is 15029.499999999998
\* and 299.285 * 100 is 29928.500000000004 in binary floating point.
NumericProfiles ==
    {("area" :> IntV(2000)) @@ ("bedrooms" :> IntV(3))
        @@ ("bathrooms" :> IntV(2)) @@ ("floors" :> IntV(2)),
     ("area" :> IntV(1000)) @@ ("bedrooms" :> IntV(2))
        @@ ("bathrooms" :> IntV(1)),
     ("Area" :> IntV(1500)) @@ ("Bedrooms" :> IntV(3))
        @@ ("Bathrooms" :> IntV(2)) @@ ("Floors" :> IntV(1)),
     ("area" :> FloatV(2, 0)) @@ ("bedrooms" :> IntV(0))
        @@ ("bathrooms" :> IntV(0)) @@ ("floors" :> IntV(1)),
     ("area" :> FloatV(30059, -1)) @@ ("bedrooms" :> IntV(0))
        @@ ("bathrooms" :> IntV(0)) @@ ("floors" :> IntV(1)),
     ("area" :> FloatV(59857, 1)) @@ ("bedrooms" :> IntV(0))
        @@ ("bathrooms" :> IntV(0)) @@ ("floors" :> IntV(1))}

YearAges ==
    {("yearBuilt" :> IntV(2010)),
     ("yearBuilt" :> IntV(1800)),
     ("yearBuilt" :> IntV(CurrentYear + 5)),
     ("age" :> IntV(25)),
     ("yearBuilt" :> NoneV) @@ ("age" :> IntV(0)),
     ("yearBuilt" :> IntV(2010)) @@ ("age" :> IntV(5)),
     EmptyDict}

Locations ==
    {EmptyDict,
     ("location" :> StrV(<<"U", "r", "b", "a", "n">>)),
     ("location" :> StrV(<<"S", "U", "B", "U", "R", "B", "A", "N">>)),
     ("location" :> StrV(<<"M", "a", "r", "s">>))}

Conditions ==
    {EmptyDict,
     ("condition" :> StrV(<<"E", "x", "c", "e", "l", "l", "e", "n", "t">>)),
     ("condition" :> StrV(s_good)),
     ("condition" :> StrV(<<"P", "O", "O", "R">>)),
     ("condition" :> StrV(<<"R", "u", "i", "n">>))}

Garages ==
    {EmptyDict,
     ("garage" :> BoolV(TRUE)),
     ("garage" :> BoolV(FALSE)),
     ("garage" :> StrV(<<"Y", "e", "s">>))}

AmenityNames == {<<"G", "a", "r", "a", "g", "e">>, s_pool}

\* No amenities key, the lists of priced names, and lists holding a name
\* that PRICE_MODEL does not price.
AmenityLists ==
    {EmptyDict}
    \cup {("amenities" :> ListV(l)) : l \in BoundedSeq(AmenityNames, MaxAmenities)}
    \cup {("amenities" :> ListV(<<<<"s", "a", "u", "n", "a">>>>)),
          ("amenities" :> ListV(<<s_pool, <<"s", "a", "u", "n", "a">>>>))}

FeatureRecords ==
    {n @@ y @@ lo @@ c @@ g @@ am :
        n \in NumericProfiles, y \in YearAges, lo \in Locations,
        c \in Conditions, g \in Garages, am \in AmenityLists}

\* Records as PropertyFeatures.model_dump() hands them to predict and
\* batch_predict: every key present, None where nothing was supplied.
DumpedRecords ==
    {("area" :> a) @@ ("bedrooms" :> IntV(0)) @@ ("bathrooms" :> IntV(0))
        @@ ("floors" :> IntV(1)) @@ y
        @@ ("location" :> NoneV) @@ ("condition" :> NoneV)
        @@ ("garage" :> NoneV) @@ ("amenities" :> ListV(<<>>)) :
        a \in {FloatV(1000 * AreaDen, 0), FloatV(2, 0)},
        y \in {("yearBuilt" :> IntV(2010)) @@ ("age" :> NoneV),
               ("yearBuilt" :> IntV(1800)) @@ ("age" :> NoneV),
               ("yearBuilt" :> NoneV) @@ ("age" :> IntV(25))}}

\* Rows of the artifact's result.
MLValues == {Num(250000), Num(10), Num(0), Num(-40000), Nan, Inf, Vec}

BatchMLValues == {Num(250000), Nan}

\* Outcomes of the learned-model pass over n rows.
ArtOutcomes(n, values) ==
    {[pre |-> "raise", out |-> "none", rows |-> <<>>],
     [pre |-> "ok", out |-> "raise", rows |-> <<>>]}
    \cup {[pre |-> "ok", out |-> "rows", rows |-> r] :
            r \in BoundedSeq(values, n + 1)}

\* The library is not reached when no model is loaded.
ArtFor(n, values) ==
    IF model_loaded /\ model # NoModel THEN ArtOutcomes(n, values) ELSE {NoArt}

(***************************************************************************)
(* What a prediction leaves of the service.  predict_ml,                   *)
(* preprocess_features (which works on df.copy()), predict_heuristic,      *)
(* predict, batch_predict and get_market_trends assign no attribute of     *)
(* self, whatever the library calls did; their except branches log only.   *)
(***************************************************************************)
\* The except branch of load_model copied into predict_ml: the model is
\* dropped when the library call raises.
service_after_prediction_drop_on_error(st, a) ==
    IF a.pre = "raise" \/ a.out = "raise"
    THEN [st EXCEPT !.model = NoModel, !.model_loaded = FALSE]
    ELSE st

service_after_prediction(st, a) == st

prediction_leaves(a) ==
    \E st \in {service_after_prediction(
                  [model |-> model, model_loaded |-> model_loaded,
                   encoders |-> encoders], a)} :
        /\ model' = st.model
        /\ model_loaded' = st.model_loaded
        /\ encoders' = st.encoders
        /\ UNCHANGED <<clock, not_authenticated, tasks>>

(***************************************************************************)
(* Calls made on the service directly.                                     *)
(***************************************************************************)
call_predict_heuristic ==
    /\ op = "idle"
    /\ \E features \in DumpedRecords :
        /\ op' = "predict_heuristic"
        /\ args' = features
        /\ art' = NoArt
        /\ ret' = predict_heuristic(features)
        /\ http' = NoRequest
        /\ prediction_leaves(NoArt)

call_predict ==
    /\ op = "idle"
    /\ \E features \in DumpedRecords :
       \E a \in ArtFor(1, MLValues) :
        /\ op' = "predict"
        /\ args' = features
        /\ art' = a
        /\ ret' = predict_result(features, a)
        /\ http' = NoRequest
        /\ prediction_leaves(a)

call_batch_predict ==
    /\ op = "idle"
    /\ \E properties \in BoundedSeq(DumpedRecords, MaxBatch) :
       \* an empty list returns before the library is reached
       \E a \in (IF properties = <<>> THEN {NoArt}
                 ELSE ArtFor(Len(properties), BatchMLValues)) :
        /\ op' = "batch_predict"
        /\ args' = properties
        /\ art' = a
        /\ ret' = batch_predict_result(properties, a)
        /\ http' = NoRequest
        /\ prediction_leaves(a)

call_get_market_trends ==
    /\ op = "idle"
    /\ op' = "get_market_trends"
    /\ args' = EmptyDict
    /\ art' = NoArt
    /\ ret' = get_market_trends_result
    /\ http' = NoRequest
    /\ prediction_leaves(NoArt)


(***************************************************************************)
(* schemas/prediction.py: PropertyFeatures                                 *)
(***************************************************************************)
Supplied(raw, key) == key \in DOMAIN raw /\ raw[key].t # "none"

\* validate_year_built
validate_year_built(v) ==
    v.t = "none" \/ ~(v.n < 1800 \/ v.n > clock + 5)

\* Field constraints and validators: TRUE when the raw JSON object is
\* accepted as a PropertyFeatures.
PropertyFeatures_valid(raw) ==
    /\ Supplied(raw, "area") /\ IsNum(raw["area"]) /\ raw["area"].n > 0
    /\ Supplied(raw, "bedrooms") /\ raw["bedrooms"].t = "int"
    /\ raw["bedrooms"].n >= 0
    /\ Supplied(raw, "bathrooms") /\ raw["bathrooms"].t = "int"
    /\ raw["bathrooms"].n >= 0
    /\ "floors" \in DOMAIN raw =>
          raw["floors"].t = "int" /\ raw["floors"].n >= 1
    /\ "yearBuilt" \in DOMAIN raw =>
          /\ raw["yearBuilt"].t \in {"int", "none"}
          /\ validate_year_built(raw["yearBuilt"])
    /\ "age" \in DOMAIN raw => raw["age"].t \in {"int", "none"}
    /\ "location" \in DOMAIN raw => raw["location"].t \in {"str", "none"}
    /\ "condition" \in DOMAIN raw => raw["condition"].t \in {"str", "none"}
    /\ "garage" \in DOMAIN raw => raw["garage"].t \in {"bool", "none"}
    /\ "amenities" \in DOMAIN raw => raw["amenities"].t = "list"

\* PropertyFeatures(...).model_dump(): every field, with its default where
\* the request gave none; area is a float.
model_dump(raw) ==
    ("area" :> (IF raw["area"].t = "int"
                THEN FloatV(raw["area"].n * AreaDen, 0) ELSE raw["area"]))
    @@ ("bedrooms" :> raw["bedrooms"])
    @@ ("bathrooms" :> raw["bathrooms"])
    @@ ("floors" :> Get(raw, "floors", IntV(1)))
    @@ ("yearBuilt" :> Get(raw, "yearBuilt", NoneV))
    @@ ("age" :> Get(raw, "age", NoneV))
    @@ ("location" :> Get(raw, "location", NoneV))
    @@ ("condition" :> Get(raw, "condition", NoneV))
    @@ ("garage" :> Get(raw, "garage", NoneV))
    @@ ("amenities" :> Get(raw, "amenities", ListV(<<>>)))

\* BatchPredictionRequest: min_length=1, max_length=100
BatchMaxLength == 100

BatchPredictionRequest_valid(raws) ==
    /\ Len(raws) >= 1
    /\ Len(raws) <= BatchMaxLength
    /\ \A i \in 1..Len(raws) : PropertyFeatures_valid(raws[i])

(***************************************************************************)
(* core/deps.py: get_current_user.  0 when a user is returned, else the    *)
(* status of the HTTPException.                                            *)
(***************************************************************************)
Credentials == {"valid", "absent", "bad_token", "unknown_user", "inactive"}

get_current_user(credentials) ==
    CASE credentials = "absent" -> not_authenticated
      [] credentials = "bad_token" -> 401
      [] credentials = "unknown_user" -> 401
      [] credentials = "inactive" -> 403
      [] OTHER -> 0

\* current_user.get('id'): get_current_user returns a UserInDB, a pydantic
\* model, which has no get method (models/user.py, lines 70-78).
current_user_get_raises == TRUE

(***************************************************************************)
(* routers/predictor.py: predict_price                                     *)
(***************************************************************************)
\* missing_fields, lines 72-82
missing_fields(features_dict) ==
    (IF ~Truthy(Get(features_dict, "area", NoneV)) THEN {"area"} ELSE {})
    \cup (IF Get(features_dict, "bedrooms", NoneV).t = "none"
          THEN {"bedrooms"} ELSE {})
    \cup (IF Get(features_dict, "bathrooms", NoneV).t = "none"
          THEN {"bathrooms"} ELSE {})
    \cup (IF /\ ~Truthy(Get(features_dict, "yearBuilt", NoneV))
             /\ Get(features_dict, "age", NoneV).t = "none"
          THEN {"yearBuilt or age"} ELSE {})

\* The status of the response, and the call made on ml_service if any.
predict_price_result(credentials, raw, a) ==
    LET auth == get_current_user(credentials)
        features_dict == model_dump(raw)
        result == predict_result(features_dict, a)
        no_call == [called |-> FALSE, args |-> EmptyDict, ret |-> Return(EmptyDict)]
    IN  IF auth # 0 THEN [status |-> auth, engine |-> no_call]
        ELSE IF ~PropertyFeatures_valid(raw) THEN [status |-> 422, engine |-> no_call]
        ELSE IF missing_fields(features_dict) # {}
        THEN [status |-> 400, engine |-> no_call]
        ELSE [status |-> IF result.raised THEN 500
                         ELSE IF ~result.value.success THEN 500
                         ELSE IF current_user_get_raises THEN 500
                         ELSE 200,
              engine |-> [called |-> TRUE, args |-> features_dict, ret |-> result]]

(***************************************************************************)
(* routers/predictor.py: batch_predict_prices                              *)
(***************************************************************************)
batch_predict_prices_result(credentials, raws, a) ==
    LET auth == get_current_user(credentials)
        properties_list == [i \in 1..Len(raws) |-> model_dump(raws[i])]
        result == batch_predict_result(properties_list, a)
        no_call == [called |-> FALSE, args |-> <<>>, ret |-> Return(EmptyDict)]
    IN  IF auth # 0 THEN [status |-> auth, engine |-> no_call]
        ELSE IF ~BatchPredictionRequest_valid(raws)
        THEN [status |-> 422, engine |-> no_call]
        ELSE IF raws = <<>> THEN [status |-> 400, engine |-> no_call]
        ELSE IF Len(raws) > 100 THEN [status |-> 400, engine |-> no_call]
        ELSE [status |-> IF result.raised THEN 500
                         ELSE IF ~result.value.success THEN 500
                         \* PropertyFeatures(**pred_data['features']) accepts
                         \* what model_dump produced
                         ELSE IF current_user_get_raises THEN 500
                         ELSE 200,
              engine |-> [called |-> TRUE, args |-> properties_list, ret |-> result]]

\* JSON objects sent as a property.
RawRecords ==
    {\* the sample property of the tests
     ("area" :> IntV(2000)) @@ ("bedrooms" :> IntV(3)) @@ ("bathrooms" :> IntV(2))
        @@ ("floors" :> IntV(2)) @@ ("yearBuilt" :> IntV(2010))
        @@ ("location" :> StrV(<<"U", "r", "b", "a", "n">>))
        @@ ("condition" :> StrV(<<"G", "o", "o", "d">>))
        @@ ("garage" :> BoolV(TRUE))
        @@ ("amenities" :> ListV(<<s_garage, s_garden>>)),
     \* age instead of yearBuilt
     ("area" :> IntV(1500)) @@ ("bedrooms" :> IntV(2)) @@ ("bathrooms" :> IntV(1))
        @@ ("age" :> IntV(0)),
     \* no bathrooms
     ("area" :> IntV(2000)) @@ ("bedrooms" :> IntV(3)) @@ ("yearBuilt" :> IntV(2010)),
     \* no area
     ("bedrooms" :> IntV(3)) @@ ("bathrooms" :> IntV(2)) @@ ("yearBuilt" :> IntV(2010)),
     \* neither yearBuilt nor age
     ("area" :> IntV(2000)) @@ ("bedrooms" :> IntV(3)) @@ ("bathrooms" :> IntV(2)),
     \* yearBuilt out of range
     ("area" :> IntV(2000)) @@ ("bedrooms" :> IntV(3)) @@ ("bathrooms" :> IntV(2))
        @@ ("yearBuilt" :> IntV(1799))}

\* One record more than max_length allows.
TooManyRecords ==
    [i \in 1..(BatchMaxLength + 1) |->
        ("area" :> IntV(2000)) @@ ("bedrooms" :> IntV(3)) @@ ("bathrooms" :> IntV(2))
            @@ ("floors" :> IntV(2)) @@ ("yearBuilt" :> IntV(2010))]

predict_price ==
    /\ op = "idle"
    /\ \E credentials \in Credentials, raw \in RawRecords :
       \E a \in ArtFor(1, BatchMLValues) :
       \E r \in {predict_price_result(credentials, raw, a)} :
            /\ http' = [endpoint |-> "predict", credentials |-> credentials,
                        status |-> r.status,
                        engine_called |-> r.engine.called]
            /\ op' = IF r.engine.called THEN "predict" ELSE "none"
            /\ args' = IF r.engine.called THEN r.engine.args ELSE raw
            /\ art' = IF r.engine.called THEN a ELSE NoArt
            /\ ret' = r.engine.ret
            /\ prediction_leaves(IF r.engine.called THEN a ELSE NoArt)

batch_predict_prices ==
    /\ op = "idle"
    /\ \E credentials \in Credentials,
          raws \in BoundedSeq(RawRecords, MaxBatch) \cup {TooManyRecords} :
       \* the library is given the rows of a list the schema let through
       \E a \in (IF Len(raws) > BatchMaxLength THEN {NoArt}
                 ELSE ArtFor(Len(raws), BatchMLValues)) :
       \E r \in {batch_predict_prices_result(credentials, raws, a)} :
            /\ http' = [endpoint |-> "batch-predict", credentials |-> credentials,
                        status |-> r.status,
                        engine_called |-> r.engine.called]
            /\ op' = IF r.engine.called THEN "batch_predict" ELSE "none"
            /\ args' = IF r.engine.called THEN r.engine.args ELSE raws
            /\ art' = IF r.engine.called THEN a ELSE NoArt
            /\ ret' = r.engine.ret
            /\ prediction_leaves(IF r.engine.called THEN a ELSE NoArt)

(***************************************************************************)
(* routers/predictor.py: get_market_trends and predictor_health            *)
(***************************************************************************)
\* MarketTrendsResponse(**result) accepts what the service returns; the log
\* statement of line 248 is inside the try block.
market_trends_result(credentials) ==
    LET auth == get_current_user(credentials)
        result == get_market_trends_result
        no_call == [called |-> FALSE, args |-> EmptyDict, ret |-> Return(EmptyDict)]
    IN  IF auth # 0 THEN [status |-> auth, engine |-> no_call]
        ELSE [status |-> IF result.raised THEN 500
                         ELSE IF current_user_get_raises THEN 500
                         ELSE 200,
              engine |-> [called |-> TRUE, args |-> EmptyDict, ret |-> result]]

market_trends ==
    /\ op = "idle"
    /\ \E credentials \in Credentials :
       \E r \in {market_trends_result(credentials)} :
            /\ http' = [endpoint |-> "market-trends", credentials |-> credentials,
                        status |-> r.status,
                        engine_called |-> r.engine.called]
            /\ op' = IF r.engine.called THEN "get_market_trends" ELSE "none"
            /\ args' = EmptyDict
            /\ art' = NoArt
            /\ ret' = r.engine.ret
            /\ prediction_leaves(NoArt)

\* The probe has no dependency on get_current_user and reads
\* ml_service.model_loaded without calling a method of the service.
predictor_health_result ==
    [status |-> IF model_loaded THEN "healthy" ELSE "degraded",
     mlModelLoaded |-> model_loaded,
     message |-> IF model_loaded THEN "ML model loaded"
                 ELSE "Using fallback heuristic model"]

predictor_health ==
    /\ op = "idle"
    /\ \E credentials \in Credentials :
            /\ http' = [endpoint |-> "health", credentials |-> credentials,
                        status |-> 200, engine_called |-> FALSE]
            /\ op' = "none"
            /\ args' = EmptyDict
            /\ art' = NoArt
            /\ ret' = Return(predictor_health_result)
            /\ UNCHANGED <<model, model_loaded, encoders, clock, not_authenticated, tasks>>

\* The caller has taken the result; the service waits for the next call.
\* Calls are served one at a time: no method of MLService awaits anything.
complete ==
    /\ op # "idle"
    /\ op' = "idle"
    /\ args' = EmptyDict
    /\ art' = NoArt
    /\ ret' = Return(EmptyDict)
    /\ http' = NoRequest
    /\ UNCHANGED <<model, model_loaded, encoders, clock, not_authenticated, tasks>>

Next ==
    \/ complete
    \/ load_model
    \/ call_predict_heuristic
    \/ call_predict
    \/ call_batch_predict
    \/ call_get_market_trends
    \/ predict_price
    \/ batch_predict_prices
    \/ market_trends
    \/ predictor_health

Spec == Init /\ [][Next]_vars

(***************************************************************************)
(* The heuristic estimator on its own, over the whole range of records:    *)
(* predict_heuristic reads nothing of the service but PRICE_MODEL, so the  *)
(* service is left as constructed without a model file.                    *)
(***************************************************************************)
InitHeuristic ==
    /\ model = NoModel
    /\ model_loaded = FALSE
    /\ encoders = NoEncoders
    /\ op = "idle"
    /\ args = EmptyDict
    /\ art = NoArt
    /\ ret = Return(EmptyDict)
    /\ http = NoRequest
    /\ clock = CurrentYear
    \* no request handler runs from here
    /\ not_authenticated = 403
    /\ tasks = NoTasks

estimate ==
    /\ op = "idle"
    /\ \E features \in FeatureRecords :
        /\ op' = "predict_heuristic"
        /\ args' = features
        /\ art' = NoArt
        /\ ret' = predict_heuristic(features)
        /\ http' = NoRequest
        /\ UNCHANGED <<model, model_loaded, encoders, clock, not_authenticated, tasks>>

NextHeuristic ==
    \/ estimate
    \/ complete

SpecHeuristic == InitHeuristic /\ [][NextHeuristic]_vars

(***************************************************************************)
(* The heuristic estimator called twice on one record, the year of the     *)
(* clock passing as it may between the two calls.                          *)
(***************************************************************************)
ClockRecords == {n @@ y : n \in NumericProfiles, y \in YearAges}

estimate_first ==
    /\ op = "idle"
    /\ \E features \in ClockRecords :
        /\ op' = "predict_heuristic"
        /\ args' = features
        /\ art' = NoArt
        /\ ret' = predict_heuristic(features)
        /\ http' = NoRequest
        /\ UNCHANGED <<model, model_loaded, encoders, clock, not_authenticated, tasks>>

\* The second call, on the record of the first; the caller holds both
\* results.
estimate_again ==
    /\ op = "predict_heuristic"
    /\ op' = "predict_heuristic_again"
    /\ ret' = Return([first |-> ret, second |-> predict_heuristic(args)])
    /\ UNCHANGED <<model, model_loaded, encoders, clock, args, art, http,
                 not_authenticated, tasks>>

\* New Year.
tick ==
    /\ op \in {"idle", "predict_heuristic"}
    /\ clock < CurrentYear + MaxYears
    /\ clock' = clock + 1
    /\ UNCHANGED <<model, model_loaded, encoders, op, args, art, ret, http,
                 not_authenticated, tasks>>

NextClock ==
    \/ estimate_first
    \/ estimate_again
    \/ tick
    \/ complete

SpecClock == InitHeuristic /\ [][NextClock]_vars

(***************************************************************************)
(* MLService.preprocess_features and the row predict_ml hands to the       *)
(* artifact.  A dict is given with the order of its keys, which is the     *)
(* order of the columns of pd.DataFrame([features]).                       *)
(***************************************************************************)
\* col[0].upper() + col[1:] on the keys of the records
Capitalized ==
    [area |-> "Area", bedrooms |-> "Bedrooms", bathrooms |-> "Bathrooms",
     floors |-> "Floors", yearBuilt |-> "YearBuilt", age |-> "Age",
     location |-> "Location", condition |-> "Condition", garage |-> "Garage",
     amenities |-> "Amenities"]

\* The code an encoder's transform gives a text: a value of the artifact,
\* known only to be a function of the text.
CodeV(str) == [t |-> "code", n |-> 0, u |-> 0, s |-> str, l |-> <<>>]

\* The lambda mapped over the Garage column, lines 127-130.  str(x) of a
\* bool, of None or of a number is none of 'yes', 'true', '1' unless the
\* bool is True or the number is 1.
garage_yes_no(x) ==
    IF \/ x.t = "bool" /\ x.n = 1
       \/ x.t = "str" /\ Lower(x.s) \in {s_yes, s_true, s_1}
       \/ x.t = "int" /\ x.n = 1
    THEN StrV(<<"Y", "e", "s">>)
    ELSE StrV(<<"N", "o">>)

\* One cell of the processed frame.  transform_ok tells whether the
\* encoder's transform accepts the column.
processed_cell(col, x, transform_ok) ==
    LET v == IF col = "Garage" THEN garage_yes_no(x) ELSE x
    IN  IF col \in {"Location", "Condition", "Garage"} /\ col \in DOMAIN encoders
        THEN (IF transform_ok THEN CodeV(v.s) ELSE IntV(0))
        ELSE v

\* The frame of one row: the names of its columns and df_processed.values.
\* A column holding None alone has dtype object, which fillna passes over.
preprocess_features(keys, features, transform_ok) ==
    [columns |-> [i \in 1..Len(keys) |-> Capitalized[keys[i]]],
     X |-> [i \in 1..Len(keys) |->
              processed_cell(Capitalized[keys[i]], features[keys[i]], transform_ok)]]

\* No frame reaches the artifact.
NoFrame == [columns |-> <<>>, X |-> <<>>]

\* predict_ml: the value it returns and the frame it handed to
\* self.model.predict, if it got that far.
predict_ml_call(keys, features, transform_ok, a) ==
    [prediction |-> predict_ml(features, a),
     frame |-> IF ~model_loaded \/ model = NoModel \/ a.pre = "raise"
               THEN NoFrame
               ELSE preprocess_features(keys, features, transform_ok)]

\* Key orders of the records handed to predict_ml.
TrainingOrder ==
    <<"area", "bedrooms", "bathrooms", "floors", "yearBuilt",
      "location", "condition", "garage">>

\* The order of the fields of PropertyFeatures, which model_dump keeps.
DumpOrder ==
    <<"area", "bedrooms", "bathrooms", "floors", "yearBuilt", "age",
      "location", "condition", "garage", "amenities">>

KeyOrders ==
    {TrainingOrder, DumpOrder,
     <<"location", "condition", "garage", "area", "bedrooms", "bathrooms",
       "floors", "yearBuilt">>,
     <<"area", "bedrooms", "bathrooms", "yearBuilt", "location", "condition">>,
     <<"bedrooms", "area", "bathrooms">>}

AdapterValues ==
    [area : {FloatV(2000 * AreaDen, 0)}, bedrooms : {IntV(3)},
     bathrooms : {IntV(2)}, floors : {IntV(1), IntV(2)},
     yearBuilt : {IntV(2010)}, age : {NoneV},
     location : {StrV(<<"U", "r", "b", "a", "n">>), StrV(<<"M", "a", "r", "s">>)},
     condition : {StrV(<<"G", "o", "o", "d">>)},
     garage : {BoolV(TRUE), BoolV(FALSE), NoneV},
     amenities : {ListV(<<>>)}]

\* A record with an order of its keys: the values of the keys it has.
Ordered(keys, values) ==
    [keys |-> keys,
     features |-> [k \in {keys[i] : i \in 1..Len(keys)} |-> values[k]]]

AdapterRecords == {Ordered(keys, values) : keys \in KeyOrders, values \in AdapterValues}

call_predict_ml ==
    /\ op = "idle"
    /\ \E r \in AdapterRecords, transform_ok \in BOOLEAN :
       \E a \in ArtFor(1, BatchMLValues) :
        /\ op' = "predict_ml"
        /\ args' = r
        /\ art' = a
        /\ ret' = Return(predict_ml_call(r.keys, r.features, transform_ok, a))
        /\ http' = NoRequest
        /\ UNCHANGED <<model, model_loaded, encoders, clock, not_authenticated, tasks>>

\* The frame of a batch, lines 325-327: pd.DataFrame(properties) has one row
\* for each record and preprocess_features works on whole columns.  The
\* encoder is an artifact: classes are the texts its transform accepts, and
\* a column holding anything else makes the transform raise, upon which
\* line 140 assigns 0 to the column.
processed_column(col, cells, classes) ==
    LET v == [i \in 1..Len(cells) |->
                IF col = "Garage" THEN garage_yes_no(cells[i]) ELSE cells[i]]
    IN  IF col \in {"Location", "Condition", "Garage"} /\ col \in DOMAIN encoders
        THEN IF \A i \in 1..Len(v) : v[i].t = "str" /\ v[i].s \in classes
             THEN [i \in 1..Len(v) |-> CodeV(v[i].s)]
             ELSE [i \in 1..Len(v) |-> IntV(0)]
        ELSE v

preprocess_features_batch(keys, properties, classes) ==
    [columns |-> [c \in 1..Len(keys) |-> Capitalized[keys[c]]],
     X |-> [r \in 1..Len(properties) |->
              [c \in 1..Len(keys) |->
                 processed_column(Capitalized[keys[c]],
                                  [i \in 1..Len(properties) |-> properties[i][keys[c]]],
                                  classes)[r]]]]

\* Texts an encoder may have been fitted on: those of the three columns, or
\* those of the Garage column alone.
EncoderClasses ==
    {{<<"U", "r", "b", "a", "n">>, <<"R", "u", "r", "a", "l">>,
      <<"G", "o", "o", "d">>, <<"Y", "e", "s">>, <<"N", "o">>},
     {<<"Y", "e", "s">>, <<"N", "o">>}}

\* Records of a batch, as model_dump gives them.
BatchAdapterRecords ==
    {[values EXCEPT !.location = StrV(text)] :
        values \in {v \in AdapterValues : v.floors = IntV(1)},
        text \in {<<"U", "r", "b", "a", "n">>, <<"R", "u", "r", "a", "l">>,
                  <<"M", "a", "r", "s">>}}

\* batch_predict up to line 327, with a model loaded.
batch_preprocess ==
    /\ op = "idle"
    /\ model_loaded
    /\ model # NoModel
    /\ \E properties \in BoundedSeq(BatchAdapterRecords, MaxBatch) \ {<<>>},
          classes \in EncoderClasses :
        /\ op' = "preprocess_features"
        /\ args' = [properties |-> properties, classes |-> classes]
        /\ art' = NoArt
        /\ ret' = Return(preprocess_features_batch(DumpOrder, properties, classes))
        /\ http' = NoRequest
        /\ UNCHANGED <<model, model_loaded, encoders, clock, not_authenticated, tasks>>

NextAdapter ==
    \/ call_predict_ml
    \/ batch_preprocess
    \/ complete

SpecAdapter == Init /\ [][NextAdapter]_vars

(***************************************************************************)
(* server/PricePrediction/predict.py: the prediction script.               *)
(***************************************************************************)
LOCATION_MAP ==
    (<<"D", "o", "w", "n", "t", "o", "w", "n">> :> 0)
    @@ (<<"R", "u", "r", "a", "l">> :> 1)
    @@ (<<"S", "u", "b", "u", "r", "b", "a", "n">> :> 2)
    @@ (<<"U", "r", "b", "a", "n">> :> 3)

CONDITION_MAP ==
    (<<"E", "x", "c", "e", "l", "l", "e", "n", "t">> :> 0)
    @@ (<<"F", "a", "i", "r">> :> 1)
    @@ (<<"G", "o", "o", "d">> :> 2)
    @@ (<<"P", "o", "o", "r">> :> 3)

GARAGE_MAP == (<<"N", "o">> :> 0) @@ (<<"Y", "e", "s">> :> 1)

\* get_encoded_value with the keys compared as they are spelled.
get_encoded_value_case_sensitive(mapping, value, default_key) ==
    IF value.t = "str" /\ value.s \in DOMAIN mapping
    THEN mapping[value.s]
    ELSE Get(mapping, default_key, 0)

\* The keys of a mapping differ in their lowercased forms, so the first
\* match of the loop is the only one.
get_encoded_value(mapping, value, default_key) ==
    IF value.t = "str" /\ \E k \in DOMAIN mapping : Lower(k) = Lower(value.s)
    THEN mapping[CHOOSE k \in DOMAIN mapping : Lower(k) = Lower(value.s)]
    ELSE Get(mapping, default_key, 0)

DecimalDigits == <<"0", "1", "2", "3", "4", "5", "6", "7", "8", "9">>

RECURSIVE DecStr(_)
DecStr(n) ==
    IF n < 10 THEN <<DecimalDigits[n + 1]>>
    ELSE DecStr(n \div 10) \o <<DecimalDigits[(n % 10) + 1]>>

\* str(garage_raw) for the values a JSON document gives the key
PyStr(v) ==
    CASE v.t = "str" -> v.s
      [] v.t = "bool" -> IF v.n = 1 THEN <<"T", "r", "u", "e">>
                         ELSE <<"F", "a", "l", "s", "e">>
      [] v.t = "int" /\ v.n >= 0 -> DecStr(v.n)

\* float(payload.get(key, default) or default); None stands for the
\* ValueError or TypeError of float() on a text or a list
float_or(payload, key, default) ==
    LET v == Get(payload, key, IntV(default))
    IN  IF ~Truthy(v) THEN FloatV(default * AreaDen, 0)
        ELSE IF v.t = "float" THEN v
        ELSE IF v.t \in {"int", "bool"} THEN FloatV(v.n * AreaDen, 0)
        ELSE NoneV

\* garage_raw, lines 86-92; None stands for the exception of iterating over
\* null (the amenities of the model are texts, so a.lower() succeeds)
garage_raw_of(payload) ==
    LET garage_raw == Get(payload, "garage", NoneV)
        amenities == Get(payload, "amenities", ListV(<<>>))
    IN  IF garage_raw.t # "none" THEN garage_raw
        ELSE IF amenities.t # "list" THEN NoneV
        ELSE IF \E i \in 1..Len(amenities.l) : Lower(amenities.l[i]) = s_garage
        THEN StrV(<<"Y", "e", "s">>)
        ELSE StrV(<<"N", "o">>)

\* The row handed to model.predict, lines 67-97; <<>> when a statement
\* before it raises.
feature_vector(payload) ==
    LET area == float_or(payload, "area", 0)
        bedrooms == float_or(payload, "bedrooms", 0)
        bathrooms == float_or(payload, "bathrooms", 0)
        floors == float_or(payload, "floors", 1)
        age == float_or(payload, "age", 0)
        location_raw == Get(payload, "location",
                            StrV(<<"D", "o", "w", "n", "t", "o", "w", "n">>))
        condition_raw == Get(payload, "condition", StrV(<<"F", "a", "i", "r">>))
        garage_raw == garage_raw_of(payload)
    IN  IF \/ NoneV \in {area, bedrooms, bathrooms, floors, age}
           \/ garage_raw = NoneV
        THEN <<>>
        ELSE <<area, bedrooms, bathrooms, floors,
               FloatV(clock * AreaDen - age.n, 0),
               IntV(get_encoded_value(LOCATION_MAP, location_raw,
                                      <<"D", "o", "w", "n", "t", "o", "w", "n">>)),
               IntV(get_encoded_value(CONDITION_MAP, condition_raw,
                                      <<"F", "a", "i", "r">>)),
               IntV(get_encoded_value(GARAGE_MAP, StrV(PyStr(garage_raw)),
                                      <<"N", "o">>))>>

\* What the script leaves behind: its exit status, the row it handed to
\* the artifact (<<>> if none) and the price it printed.
main_result(payload, a) ==
    LET X == feature_vector(payload)
        none == [exit |-> 0, X |-> <<>>, predicted |-> NoneML]
    IN  IF a.pre = "absent" THEN [none EXCEPT !.exit = 3]
        ELSE IF a.pre = "raise" THEN [none EXCEPT !.exit = 5]
        ELSE IF X = <<>> THEN [none EXCEPT !.exit = 5]
        ELSE IF a.out = "raise" THEN [none EXCEPT !.exit = 4, !.X = X]
        ELSE IF a.rows = <<>> \/ FloatRaises(a.rows[1])
        THEN [none EXCEPT !.exit = 5, !.X = X]
        ELSE [exit |-> 0, X |-> X, predicted |-> a.rows[1]]

\* load_artifact finds no file, fails to unpickle it, or returns the
\* model, whose predict raises or returns rows.
ScriptArtOutcomes ==
    {[pre |-> p, out |-> "none", rows |-> <<>>] : p \in {"absent", "raise"}}
    \cup {[pre |-> "ok", out |-> "raise", rows |-> <<>>]}
    \cup {[pre |-> "ok", out |-> "rows", rows |-> <<v>>] : v \in {Num(250000), Nan, Vec}}
    \cup {[pre |-> "ok", out |-> "rows", rows |-> <<>>]}

\* JSON documents on the standard input of the script.
PayloadNumerics ==
    {("area" :> IntV(2000)) @@ ("bedrooms" :> IntV(3)) @@ ("bathrooms" :> IntV(2))
        @@ ("floors" :> IntV(2)) @@ ("age" :> IntV(10)),
     ("area" :> FloatV(30059, -1)) @@ ("bedrooms" :> IntV(1))
        @@ ("yearBuilt" :> IntV(2010)),
     EmptyDict,
     ("area" :> StrV(<<"b", "i", "g">>))}

PayloadLocations ==
    Locations \cup
    {("location" :> NoneV), ("location" :> IntV(5)),
     ("location" :> StrV(<<"D", "O", "W", "N", "T", "O", "W", "N">>))}

PayloadConditions == Conditions \cup {("condition" :> NoneV)}

PayloadGarages ==
    Garages \cup
    {("garage" :> NoneV), ("garage" :> StrV(<<"n", "o">>)), ("garage" :> IntV(1))}

PayloadAmenities ==
    {EmptyDict, ("amenities" :> NoneV),
     ("amenities" :> ListV(<<s_pool>>)),
     ("amenities" :> ListV(<<s_pool, <<"G", "a", "r", "a", "g", "e">>>>))}

Payloads ==
    {n @@ lo @@ c @@ g @@ am :
        n \in PayloadNumerics, lo \in PayloadLocations, c \in PayloadConditions,
        g \in PayloadGarages, am \in PayloadAmenities}

main ==
    /\ op = "idle"
    /\ \E payload \in Payloads, a \in ScriptArtOutcomes :
        /\ op' = "main"
        /\ args' = payload
        /\ art' = a
        /\ ret' = Return(main_result(payload, a))
        /\ http' = NoRequest
        /\ UNCHANGED <<model, model_loaded, encoders, clock, not_authenticated, tasks>>

NextScript ==
    \/ main
    \/ complete

\* The script is a process of its own: nothing of the service is involved.
SpecScript == InitHeuristic /\ [][NextScript]_vars

(***************************************************************************)
(* load_model and a prediction followed statement by statement.  The       *)
(* service is a module-level object of one process.  load_model is a plain *)
(* function, called by __init__ and by startup_event; predict and          *)
(* batch_predict are coroutines without an await in their bodies, awaited  *)
(* by handlers that are coroutines themselves.  All of them run on the     *)
(* thread of the event loop, which takes up another task only when the     *)
(* running one awaits or returns.                                          *)
(***************************************************************************)
\* Handlers and startup run in threads of their own.
event_loop_free_threaded(running) == TRUE

\* The event loop can enter a call: no call is between its first statement
\* and its return.
event_loop_free(running) == running = "none"

EncoderColumns == <<"Location", "Condition", "Garage">>

\* line 85: load_model is entered
load_model_enter ==
    /\ event_loop_free(tasks.running)
    /\ tasks.load.pc = "idle"
    /\ \E env \in LoadEnvs :
          tasks' = [tasks EXCEPT !.running = "load_model",
                                 !.load = [pc |-> "86", env |-> env,
                                           wrote |-> FALSE, col |-> 0,
                                           ret |-> FALSE]]
    /\ UNCHANGED <<model, model_loaded, encoders, op, args, art, ret, http,
                   clock, not_authenticated>>

\* lines 86-87 and 100-102: the model file is looked for and loaded
load_model_86 ==
    /\ tasks.load.pc = "86"
    /\ IF tasks.load.env.model_file = "absent"
       THEN /\ tasks' = [tasks EXCEPT !.running = "none", !.load.pc = "idle",
                                      !.load.ret = FALSE]
            /\ UNCHANGED model
       ELSE IF tasks.load.env.model_file = "corrupt"
       THEN /\ tasks' = [tasks EXCEPT !.load.pc = "106"]
            /\ UNCHANGED model
       ELSE /\ model' = tasks.load.env.artifact
            /\ tasks' = [tasks EXCEPT !.load.pc = "89", !.load.wrote = TRUE]
    /\ UNCHANGED <<model_loaded, encoders, op, args, art, ret, http,
                   clock, not_authenticated>>

\* line 89
load_model_89 ==
    /\ tasks.load.pc = "89"
    /\ model_loaded' = TRUE
    /\ tasks' = [tasks EXCEPT !.load.pc = "92"]
    /\ UNCHANGED <<model, encoders, op, args, art, ret, http,
                   clock, not_authenticated>>

\* lines 92-93 and 99: the encoder file is looked for and loaded
load_model_92 ==
    /\ tasks.load.pc = "92"
    /\ tasks' =
         IF tasks.load.env.encoder_file = "absent"
         THEN [tasks EXCEPT !.running = "none", !.load.pc = "idle",
                            !.load.ret = TRUE]
         ELSE IF tasks.load.env.encoder_file = "corrupt"
         THEN [tasks EXCEPT !.load.pc = "106"]
         ELSE [tasks EXCEPT !.load.pc = "96", !.load.col = 1]
    /\ UNCHANGED <<model, model_loaded, encoders, op, args, art, ret, http,
                   clock, not_authenticated>>

\* lines 95-96 and 99: one turn of the loop over the three columns
load_model_96 ==
    /\ tasks.load.pc = "96"
    /\ encoders' =
         [c \in DOMAIN encoders \cup {EncoderColumns[tasks.load.col]} |->
             IF c = EncoderColumns[tasks.load.col]
             THEN tasks.load.env.encoder ELSE encoders[c]]
    /\ tasks' =
         IF tasks.load.col < Len(EncoderColumns)
         THEN [tasks EXCEPT !.load.col = tasks.load.col + 1]
         ELSE [tasks EXCEPT !.running = "none", !.load.pc = "idle",
                            !.load.ret = TRUE]
    /\ UNCHANGED <<model, model_loaded, op, args, art, ret, http,
                   clock, not_authenticated>>

\* line 106, in the except branch
load_model_106 ==
    /\ tasks.load.pc = "106"
    /\ model' = NoModel
    /\ tasks' = [tasks EXCEPT !.load.pc = "107", !.load.wrote = TRUE]
    /\ UNCHANGED <<model_loaded, encoders, op, args, art, ret, http,
                   clock, not_authenticated>>

\* lines 107-108
load_model_107 ==
    /\ tasks.load.pc = "107"
    /\ model_loaded' = FALSE
    /\ tasks' = [tasks EXCEPT !.running = "none", !.load.pc = "idle",
                              !.load.ret = FALSE]
    /\ UNCHANGED <<model, encoders, op, args, art, ret, http,
                   clock, not_authenticated>>

\* predict (line 279, into predict_ml) or batch_predict (line 320) is entered
prediction_enter ==
    /\ event_loop_free(tasks.running)
    /\ tasks.pred.pc = "idle"
    /\ \E kind \in {"predict", "batch_predict"} :
          tasks' = [tasks EXCEPT !.running = kind,
                                 !.pred = [IdlePrediction EXCEPT
                                              !.pc = "loaded", !.kind = kind]]
    /\ UNCHANGED <<model, model_loaded, encoders, op, args, art, ret, http,
                   clock, not_authenticated>>

\* lines 159 and 323: self.model_loaded is read
prediction_reads_model_loaded ==
    /\ tasks.pred.pc = "loaded"
    /\ tasks' = [tasks EXCEPT !.pred.loaded = model_loaded,
                              !.pred.pc = IF model_loaded THEN "model"
                                          ELSE "return",
                              !.pred.result = IF model_loaded THEN "none"
                                              ELSE "heuristic"]
    /\ UNCHANGED <<model, model_loaded, encoders, op, args, art, ret, http,
                   clock, not_authenticated>>

\* lines 159 and 323: self.model is read
prediction_reads_model ==
    /\ tasks.pred.pc = "model"
    /\ tasks' = [tasks EXCEPT !.pred.model = model,
                              !.pred.pc = IF model # NoModel THEN "encoders"
                                          ELSE "return",
                              !.pred.result = IF model # NoModel THEN "none"
                                              ELSE "heuristic"]
    /\ UNCHANGED <<model, model_loaded, encoders, op, args, art, ret, http,
                   clock, not_authenticated>>

\* lines 135-137, in preprocess_features: self.encoders is read
prediction_reads_encoders ==
    /\ tasks.pred.pc = "encoders"
    /\ tasks' = [tasks EXCEPT !.pred.encoders = encoders, !.pred.pc = "predict"]
    /\ UNCHANGED <<model, model_loaded, encoders, op, args, art, ret, http,
                   clock, not_authenticated>>

\* lines 166 and 328: self.model.predict(X); on None the AttributeError is
\* caught and the heuristic answers
prediction_calls_model ==
    /\ tasks.pred.pc = "predict"
    /\ tasks' = [tasks EXCEPT !.pred.used = model,
                              !.pred.pc = "return",
                              !.pred.result = IF model # NoModel THEN "ml_model"
                                              ELSE "heuristic"]
    /\ UNCHANGED <<model, model_loaded, encoders, op, args, art, ret, http,
                   clock, not_authenticated>>

\* the call returns to its caller
prediction_return ==
    /\ tasks.pred.pc = "return"
    /\ tasks' = [tasks EXCEPT !.running = "none", !.pred.pc = "idle"]
    /\ UNCHANGED <<model, model_loaded, encoders, op, args, art, ret, http,
                   clock, not_authenticated>>

NextReload ==
    \/ load_model_enter
    \/ load_model_86
    \/ load_model_89
    \/ load_model_92
    \/ load_model_96
    \/ load_model_106
    \/ load_model_107
    \/ prediction_enter
    \/ prediction_reads_model_loaded
    \/ prediction_reads_model
    \/ prediction_reads_encoders
    \/ prediction_calls_model
    \/ prediction_return

SpecReload == Init /\ [][NextReload]_vars

(***************************************************************************)
(* Vocabulary of the properties.                                           *)
(***************************************************************************)
\* A record the feature schema describes: area > 0, bedrooms >= 0,
\* bathrooms >= 0, floors >= 1, and a yearBuilt in range or an age.
ValidRecord(f) ==
    /\ Supplied(f, "area") /\ IsNum(f["area"]) /\ f["area"].n > 0
    /\ Supplied(f, "bedrooms") /\ f["bedrooms"].t = "int" /\ f["bedrooms"].n >= 0
    /\ Supplied(f, "bathrooms") /\ f["bathrooms"].t = "int" /\ f["bathrooms"].n >= 0
    /\ Supplied(f, "floors") => f["floors"].t = "int" /\ f["floors"].n >= 1
    /\ \/ /\ Supplied(f, "yearBuilt") /\ f["yearBuilt"].t = "int"
          /\ f["yearBuilt"].n >= 1800 /\ f["yearBuilt"].n <= clock + 5
       \/ /\ ~Supplied(f, "yearBuilt")
          /\ Supplied(f, "age") /\ f["age"].t = "int"

\* A batch_predict call has returned a success value.
BatchReturned ==
    /\ op = "batch_predict"
    /\ ~ret.raised
    /\ ret.value.success

\* A predict call has returned a success value.
PredictReturned ==
    /\ op = "predict"
    /\ ~ret.raised
    /\ ret.value.success

ModelAvailable == model_loaded /\ model # NoModel

\* The learned-model pass of the last batch_predict call was attempted and
\* failed: in preprocessing, in the artifact's predict call, or while an
\* item was being built.
LearnedPassFailed ==
    /\ ModelAvailable
    /\ \/ art.pre = "raise"
       \/ art.out = "raise"
       \/ ml_loop_raises(args, art.rows)

IsLearnedItem(p) == p.confidence = 90 /\ DOMAIN p.breakdown = {}

BreakdownNames ==
    {"basePrice", "areaContribution", "bedroomContribution",
     "bathroomContribution", "floorsContribution", "ageAdjustment",
     "locationPremium", "conditionAdjustment", "garageContribution",
     "otherAmenitiesContribution"}

IsHeuristicItem(p) == p.confidence = 85 /\ DOMAIN p.breakdown = BreakdownNames

\* The prediction dicts of the last predict or batch_predict result.
ReturnedPredictions ==
    IF PredictReturned THEN {ret.value.prediction}
    ELSE IF BatchReturned
    THEN {ret.value.predictions[i].prediction : i \in 1..Len(ret.value.predictions)}
    ELSE {}

(***************************************************************************)
(* C1.  Batch all-or-nothing: when the learned-model pass of a             *)
(* batch_predict call on a non-empty list fails at any point, the returned *)
(* predictions list holds exactly one heuristic item per input record, and *)
(* no returned batch mixes learned-model items with heuristic items.       *)
(***************************************************************************)
C1_BatchAllOrNothing ==
    BatchReturned =>
        /\ LearnedPassFailed =>
              /\ Len(ret.value.predictions) = Len(args)
              /\ \A i \in 1..Len(ret.value.predictions) :
                    IsHeuristicItem(ret.value.predictions[i].prediction)
        /\ ~ \E i, j \in 1..Len(ret.value.predictions) :
                /\ IsLearnedItem(ret.value.predictions[i].prediction)
                /\ IsHeuristicItem(ret.value.predictions[j].prediction)

(***************************************************************************)
(* C2.  Every successful batch_predict call on N records returns N         *)
(* predictions whose propertyId values are 1, 2, ..., N in input order,    *)
(* whatever the artifact returned.                                         *)
(***************************************************************************)
C2_BatchLengthAndIds ==
    BatchReturned =>
        /\ Len(ret.value.predictions) = Len(args)
        /\ \A i \in 1..Len(ret.value.predictions) :
              ret.value.predictions[i].propertyId = i

(***************************************************************************)
(* C4.  In every prediction returned by predict or batch_predict for valid *)
(* records, priceRange.min < estimatedPrice < priceRange.max.              *)
(***************************************************************************)
ArgsValid ==
    IF op = "batch_predict" THEN \A i \in 1..Len(args) : ValidRecord(args[i])
    ELSE ValidRecord(args)

C4_RangeStrictlyBrackets ==
    (PredictReturned \/ BatchReturned) /\ ArgsValid =>
        \A p \in ReturnedPredictions :
            p.priceRange.min < p.estimatedPrice /\ p.estimatedPrice < p.priceRange.max

(***************************************************************************)
(* C5.  No failure of the learned-model path reaches the caller of         *)
(* predict: when the model is absent, preprocessing fails, the artifact    *)
(* raises or returns a value no estimate can be built from, predict        *)
(* returns success with modelUsed = "heuristic".                           *)
(***************************************************************************)
NoUsableEstimate ==
    \/ ~ModelAvailable
    \/ art.pre = "raise"
    \/ art.out = "raise"
    \/ art.rows = <<>>
    \/ art.rows[1].k \in {"nan", "inf", "vec"}

C5_LearnedFailureNeverSurfaces ==
    op = "predict" /\ ValidRecord(args) /\ NoUsableEstimate =>
        /\ ~ret.raised
        /\ ret.value.success
        /\ ret.value.modelUsed = "heuristic"

(***************************************************************************)
(* C7.  The result shape follows the path: modelUsed = "heuristic" means   *)
(* confidence 0.85 and the ten breakdown entries, modelUsed = "ml_model"   *)
(* means confidence 0.90 and an empty breakdown; confidence is in [0, 1].  *)
(***************************************************************************)
C7_ShapeFollowsPath ==
    \A p \in ReturnedPredictions :
        /\ ret.value.modelUsed = "heuristic" => IsHeuristicItem(p)
        /\ ret.value.modelUsed = "ml_model" => IsLearnedItem(p)
        /\ 0 <= p.confidence /\ p.confidence <= 100

(***************************************************************************)
(* C8.  On both endpoints a record lacking area, bedrooms, bathrooms, or   *)
(* both yearBuilt and age never reaches MLService.                         *)
(***************************************************************************)
LacksRequired(d) ==
    \/ ~Supplied(d, "area")
    \/ ~Supplied(d, "bedrooms")
    \/ ~Supplied(d, "bathrooms")
    \/ ~Supplied(d, "yearBuilt") /\ ~Supplied(d, "age")

C8_MissingFieldsNeverReachEngine ==
    http.engine_called =>
        /\ http.endpoint = "batch-predict" =>
              \A i \in 1..Len(args) : ~LacksRequired(args[i])
        /\ http.endpoint = "predict" => ~LacksRequired(args)

(***************************************************************************)
(* C3.  Reconciliation of the heuristic estimate with its breakdown.       *)
(***************************************************************************)
RECURSIVE SumOver(_, _)
SumOver(m, keys) ==
    IF keys = {} THEN 0
    ELSE LET k == CHOOSE x \in keys : TRUE
         IN  m[k] + SumOver(m, keys \ {k})

SumValues(m) == SumOver(m, DOMAIN m)

HeuristicReturned == op = "predict_heuristic" /\ ~ret.raised

\* area * 100 is a whole number and the binary product is that number.
ExactAreaProduct(a) ==
    a.t = "int" \/ (a.u = 0 /\ (a.n * 100) % AreaDen = 0)

\* C3 as stated: for every valid record, estimatedPrice equals basePrice
\* plus the sum of all values of the returned breakdown map.
C3_BasePlusBreakdownSum ==
    op = "predict_heuristic" /\ ValidRecord(args) =>
        /\ ~ret.raised
        /\ ret.value.estimatedPrice
             = PRICE_MODEL.basePrice + SumValues(ret.value.breakdown)

\* C3 as amended: for every valid record whose area times 100 is a whole
\* number, estimatedPrice equals the sum of all values of the returned
\* breakdown map, of which basePrice is one.  (For other areas the two can
\* differ by one: area = 150.295 with age = 25 gives 15030 against 15029.)
C3_BreakdownSum ==
    op = "predict_heuristic" /\ ValidRecord(args)
        /\ ExactAreaProduct(args["area"]) =>
        /\ ~ret.raised
        /\ ret.value.estimatedPrice = SumValues(ret.value.breakdown)

C3_Witness ==
    /\ HeuristicReturned
    /\ ValidRecord(args)
    /\ ExactAreaProduct(args["area"])
    /\ ret.value.breakdown.floorsContribution > 0
    /\ ret.value.breakdown.locationPremium > 0
    /\ ret.value.breakdown.ageAdjustment < 0
    /\ ret.value.breakdown.garageContribution > 0
    /\ ret.value.estimatedPrice = SumValues(ret.value.breakdown)

(***************************************************************************)
(* C6.  Orchestrator policy: a returned predict result says "ml_model"     *)
(* exactly when the model is loaded and the adapter returned an estimate,  *)
(* and "heuristic" otherwise; while no model is loaded every predict and   *)
(* every non-empty batch_predict call on valid records succeeds with       *)
(* modelUsed = "heuristic".                                                *)
(***************************************************************************)
AdapterReturnedEstimate ==
    /\ ModelAvailable
    /\ art.pre = "ok"
    /\ art.out = "rows"
    /\ art.rows # <<>>
    /\ ~FloatRaises(art.rows[1])

GarageInAmenities(f) ==
    /\ Supplied(f, "amenities")
    /\ \E i \in 1..Len(f["amenities"].l) : Lower(f["amenities"].l[i]) = s_garage

GarageSupplied(f) ==
    \/ /\ Supplied(f, "garage")
       /\ \/ f["garage"] = BoolV(TRUE)
          \/ f["garage"] = StrV(<<"Y", "e", "s">>)
    \/ GarageInAmenities(f)

NotGarage(a) == Lower(a) # s_garage

WithoutGarage(f) ==
    [k \in DOMAIN f \ {"garage"} |->
        IF k = "amenities" /\ f[k].t = "list"
        THEN ListV(SelectSeq(f[k].l, NotGarage))
        ELSE f[k]]

C9_GarageCountedOnce ==
    HeuristicReturned /\ GarageSupplied(args) =>
        \A without \in {predict_heuristic(WithoutGarage(args)).value} :
            /\ ret.value.breakdown.garageContribution = 15000
            /\ ret.value.breakdown.otherAmenitiesContribution
                 = without.breakdown.otherAmenitiesContribution
            /\ without.breakdown.garageContribution = 0
            /\ ExactAreaProduct(GetOr(args, "area", "Area", IntV(0))) =>
                  ret.value.estimatedPrice = without.estimatedPrice + 15000
            \* the two estimates are rounded separately
            /\ Abs(ret.value.estimatedPrice - without.estimatedPrice - 15000) <= 1

C9_Witness ==
    /\ HeuristicReturned
    /\ Supplied(args, "garage")
    /\ args["garage"] = BoolV(TRUE)
    /\ GarageInAmenities(args)
    /\ ret.value.breakdown.garageContribution = 15000
    /\ ret.value.breakdown.otherAmenitiesContribution = 25000

(***************************************************************************)
(* C10.  Monotonicity of the heuristic estimate: with everything else      *)
(* equal, Urban >= Suburban >= Rural and Excellent > Good > Fair > Poor,   *)
(* the category names being matched whatever their letter case.            *)
(***************************************************************************)
\* Spellings the records are compared with: every priced name, "rural" and
\* "fair" included, in a letter case other than the one the records use.
LocationSpellings ==
    {<<"U", "R", "B", "A", "N">>, s_suburban, <<"R", "u", "r", "a", "l">>}

ConditionSpellings ==
    {s_excellent, <<"G", "O", "O", "D">>, s_fair, <<"P", "o", "o", "r">>}

LocationRank(str) ==
    CASE Lower(str) = s_urban -> 3
      [] Lower(str) = s_suburban -> 2
      [] Lower(str) = s_rural -> 1
      [] OTHER -> 0

ConditionRank(str) ==
    CASE Lower(str) = s_excellent -> 4
      [] Lower(str) = s_good -> 3
      [] Lower(str) = s_fair -> 2
      [] Lower(str) = s_poor -> 1
      [] OTHER -> 0

\* The estimate of the record f with its key set to the text str.
EstimateWith(f, key, str) ==
    predict_heuristic([k \in DOMAIN f \cup {key} |->
                          IF k = key THEN StrV(str) ELSE f[k]]).value.estimatedPrice

C10_Monotone ==
    HeuristicReturned /\ ValidRecord(args) =>
        /\ Supplied(args, "location") /\ LocationRank(args["location"].s) > 0 =>
              \A other \in LocationSpellings :
              \A e \in {EstimateWith(args, "location", other)} :
                 LET mine == LocationRank(args["location"].s)
                     theirs == LocationRank(other)
                 IN  /\ mine >= theirs => ret.value.estimatedPrice >= e
                     /\ mine <= theirs => ret.value.estimatedPrice <= e
        /\ Supplied(args, "condition") /\ ConditionRank(args["condition"].s) > 0 =>
              \A other \in ConditionSpellings :
              \A e \in {EstimateWith(args, "condition", other)} :
                 LET mine == ConditionRank(args["condition"].s)
                     theirs == ConditionRank(other)
                 IN  /\ mine > theirs => ret.value.estimatedPrice > e
                     /\ mine < theirs => ret.value.estimatedPrice < e
                     /\ mine = theirs => ret.value.estimatedPrice = e

C10_Witness ==
    /\ HeuristicReturned
    /\ ValidRecord(args)
    /\ Supplied(args, "location")
    /\ args["location"].s = <<"S", "U", "B", "U", "R", "B", "A", "N">>
    /\ Supplied(args, "condition")
    /\ args["condition"].s = <<"P", "O", "O", "R">>
    /\ ret.value.breakdown.locationPremium = 30000
    /\ ret.value.breakdown.conditionAdjustment = -20000

(***************************************************************************)
(* C11.  Unknown categorical text never aborts a prediction: for a valid   *)
(* record whose location (condition) is a text outside the vocabulary, is  *)
(* empty or is absent, predict_heuristic returns with locationPremium = 0  *)
(* (conditionAdjustment = 0); and putting an unknown or empty text where   *)
(* the record has none changes nothing of the result.                      *)
(***************************************************************************)
UnknownTexts == {<<>>, <<"D", "o", "w", "n", "t", "o", "w", "n">>}

\* The record f with its key set to the text str.
WithText(f, key, str) ==
    [k \in DOMAIN f \cup {key} |-> IF k = key THEN StrV(str) ELSE f[k]]

UnknownLocation(f) ==
    ~Supplied(f, "location") \/ LocationRank(f["location"].s) = 0

UnknownCondition(f) ==
    ~Supplied(f, "condition") \/ ConditionRank(f["condition"].s) = 0

C11_UnknownCategoryIsZero ==
    op = "predict_heuristic" /\ ValidRecord(args) =>
        /\ UnknownLocation(args) =>
              ~ret.raised /\ ret.value.breakdown.locationPremium = 0
        /\ UnknownCondition(args) =>
              ~ret.raised /\ ret.value.breakdown.conditionAdjustment = 0
        /\ ~Supplied(args, "location") =>
              \A t \in UnknownTexts :
                  predict_heuristic(WithText(args, "location", t)) = ret
        /\ ~Supplied(args, "condition") =>
              \A t \in UnknownTexts :
                  predict_heuristic(WithText(args, "condition", t)) = ret

C11_Witness ==
    /\ HeuristicReturned
    /\ ValidRecord(args)
    /\ Supplied(args, "location")
    /\ args["location"].s = <<"M", "a", "r", "s">>
    /\ Supplied(args, "condition")
    /\ args["condition"].s = <<"R", "u", "i", "n">>
    /\ ret.value.breakdown.locationPremium = 0
    /\ ret.value.breakdown.conditionAdjustment = 0

(***************************************************************************)
(* C12.  Encoder default on miss, as the claim states it: a value matched  *)
(* case-insensitively gets its vocabulary code, and on a miss (text not in *)
(* the vocabulary, value not a text, value absent) the code is that of the *)
(* first category of the column (code 0; "No" for garage), never an error. *)
(***************************************************************************)
LocationCodes ==
    (<<"d", "o", "w", "n", "t", "o", "w", "n">> :> 0) @@ (s_rural :> 1)
    @@ (s_suburban :> 2) @@ (s_urban :> 3)

ConditionCodes ==
    (s_excellent :> 0) @@ (s_fair :> 1) @@ (s_good :> 2) @@ (s_poor :> 3)

GarageCodes == (<<"n", "o">> :> 0) @@ (s_yes :> 1)

\* The payload gives the column a text of the vocabulary.
Matched(codes, payload, key) ==
    /\ Supplied(payload, key)
    /\ payload[key].t = "str"
    /\ Lower(payload[key].s) \in DOMAIN codes

ExpectedCode(codes, payload, key, default) ==
    IF Matched(codes, payload, key) THEN codes[Lower(payload[key].s)] ELSE default

\* The script got as far as building the row for the artifact.
RowBuilt == op = "main" /\ ret.value.X # <<>>

\* Nothing but the categorical columns can stop the script before the row.
RowExpected ==
    /\ op = "main"
    /\ art.pre = "ok"
    /\ \A k \in {"area", "bedrooms", "bathrooms", "floors", "age"} :
          Supplied(args, k) => args[k].t \in {"int", "float", "bool"}

GarageFromAmenities(payload) ==
    IF /\ Supplied(payload, "amenities")
       /\ \E i \in 1..Len(payload["amenities"].l) :
             Lower(payload["amenities"].l[i]) = s_garage
    THEN 1 ELSE 0

AmenitiesReadable(payload) ==
    \/ Supplied(payload, "garage")
    \/ "amenities" \notin DOMAIN payload
    \/ payload["amenities"].t = "list"

C13_EqualRecordsEqualResults ==
    op = "predict_heuristic_again" => ret.value.second = ret.value.first

(***************************************************************************)
(* C14.  Heuristic formula, as the claim states it: for every valid        *)
(* record, estimatedPrice = round(50000 + 100*area + 15000*bedrooms +      *)
(* 10000*bathrooms + 7500*(floors-1) - 2000*age + locationPremium +        *)
(* conditionAdjustment + garageContribution + otherAmenitiesContribution), *)
(* the sum being taken in binary floating point from left to right, floors *)
(* defaulting to 1, and each breakdown entry is its term rounded.          *)
(***************************************************************************)
\* The age the formula speaks of: derived from yearBuilt when it is given.
AgeOf(f) ==
    IF Supplied(f, "yearBuilt") THEN clock - f["yearBuilt"].n ELSE f["age"].n

FloorsOf(f) == IF Supplied(f, "floors") THEN f["floors"].n ELSE 1

\* The whole-number terms of the formula, in the order it lists them after
\* the area term.
WholeTerms(f, b) ==
    <<15000 * f["bedrooms"].n, 10000 * f["bathrooms"].n,
      7500 * (FloorsOf(f) - 1), -2000 * AgeOf(f),
      b.locationPremium, b.conditionAdjustment,
      b.garageContribution, b.otherAmenitiesContribution>>

RECURSIVE AddAll(_, _)
AddAll(acc, terms) ==
    IF terms = <<>> THEN acc
    ELSE AddAll(FAdd(acc, Exact(Head(terms))), Tail(terms))

FormulaValue(f, b) ==
    AddAll(FAdd(Exact(50000), Times(f["area"], 100)), WholeTerms(f, b))

TermsMatch(f, b) ==
    /\ b.basePrice = 50000
    /\ b.areaContribution = Round(Times(f["area"], 100))
    /\ b.bedroomContribution = 15000 * f["bedrooms"].n
    /\ b.bathroomContribution = 10000 * f["bathrooms"].n
    /\ b.floorsContribution = 7500 * (FloorsOf(f) - 1)
    /\ b.ageAdjustment = -2000 * AgeOf(f)
    /\ ~Supplied(f, "floors") => b.floorsContribution = 0

C14_FormulaEveryRecord ==
    op = "predict_heuristic" /\ ValidRecord(args) =>
        /\ ~ret.raised
        /\ ret.value.estimatedPrice
             = Round(FormulaValue(args, ret.value.breakdown))
        /\ TermsMatch(args, ret.value.breakdown)

(***************************************************************************)
(* C14 as amended: for every valid record each breakdown entry is its term *)
(* rounded; when area times 100 is a whole number estimatedPrice is the    *)
(* formula's value exactly; for any other area estimatedPrice is one of    *)
(* the two integers next to the value of the formula.                      *)
(***************************************************************************)
\* Twice the value of the formula, the area taken as the decimal it was
\* written as.
TwiceFormula(f, b) ==
    2 * (50000 + SumValues(WholeTerms(f, b)))
    + (IF f["area"].t = "int" THEN 2 * 100 * f["area"].n
       ELSE (f["area"].n * 100 * 2) \div AreaDen)

C14_Formula ==
    op = "predict_heuristic" /\ ValidRecord(args) =>
        /\ ~ret.raised
        /\ TermsMatch(args, ret.value.breakdown)
        /\ ExactAreaProduct(args["area"]) =>
              2 * ret.value.estimatedPrice
                 = TwiceFormula(args, ret.value.breakdown)
        /\ Abs(2 * ret.value.estimatedPrice
                 - TwiceFormula(args, ret.value.breakdown)) <= 1

C14_Witness ==
    /\ HeuristicReturned
    /\ ValidRecord(args)
    /\ ~Supplied(args, "floors")
    /\ ret.value.breakdown.floorsContribution = 0
    /\ ret.value.breakdown.locationPremium = 50000
    /\ ret.value.breakdown.otherAmenitiesContribution = 25000
    /\ ret.value.estimatedPrice = 50000 + 100000 + 30000 + 10000 - 50000
                                    + 50000 + 40000 + 15000 + 25000

(***************************************************************************)
(* C15.  Age derivation: a valid record that supplies yearBuilt gets       *)
(* ageAdjustment = (currentYear - yearBuilt) * (-2000), whether or not it  *)
(* also gives an age; one that supplies only age gets age * (-2000); and   *)
(* either of the two suffices for the call to return.                      *)
(***************************************************************************)
C15_AgeDerivation ==
    op = "predict_heuristic" /\ ValidRecord(args) =>
        /\ ~ret.raised
        /\ Supplied(args, "yearBuilt") =>
              ret.value.breakdown.ageAdjustment
                 = (clock - args["yearBuilt"].n) * (-2000)
        /\ ~Supplied(args, "yearBuilt") =>
              ret.value.breakdown.ageAdjustment = args["age"].n * (-2000)

C15_Witness ==
    /\ HeuristicReturned
    /\ ValidRecord(args)
    /\ Supplied(args, "yearBuilt") /\ args["yearBuilt"].n = 2010
    /\ Supplied(args, "age") /\ args["age"].n = 5
    /\ ret.value.breakdown.ageAdjustment = (clock - 2010) * (-2000)

(***************************************************************************)
(* C16.  Amenities are a set: otherAmenitiesContribution is the sum of the *)
(* flat values of the distinct known amenities other than "garage" that    *)
(* the record lists, so neither the order of the list nor a repeated name  *)
(* changes it, and unknown names add 0.                                    *)
(***************************************************************************)
\* The names of the list, lowercased, as a set.
AmenitySet(f) ==
    IF Supplied(f, "amenities")
    THEN {Lower(f["amenities"].l[i]) : i \in 1..Len(f["amenities"].l)}
    ELSE {}

FlatValues ==
    (s_garden :> 10000) @@ (s_pool :> 25000) @@ (s_basement :> 20000)
    @@ (s_balcony :> 8000)

C16_AmenitiesAreASet ==
    HeuristicReturned /\ ValidRecord(args) =>
        ret.value.breakdown.otherAmenitiesContribution
           = SumOver(FlatValues, AmenitySet(args) \cap DOMAIN FlatValues)

(***************************************************************************)
(* C17.  For every valid record the heuristic path returns                 *)
(* estimatedPrice > 0 and priceRange.min > 0 with priceRange.max above     *)
(* priceRange.min.                                                         *)
(***************************************************************************)
C17_PositiveEstimate ==
    op = "predict_heuristic" /\ ValidRecord(args) =>
        /\ ~ret.raised
        /\ ret.value.estimatedPrice > 0
        /\ ret.value.priceRange.min > 0
        /\ ret.value.priceRange.max > ret.value.priceRange.min

(***************************************************************************)
(* C18.  batch_predict on an empty list returns a failure value, success = *)
(* false with an error message and no predictions list, whether or not a   *)
(* model is loaded, and neither estimator is invoked.                      *)
(***************************************************************************)
C18_EmptyBatchFails ==
    op = "batch_predict" /\ args = <<>> =>
        /\ ~ret.raised
        /\ DOMAIN ret.value = {"success", "error"}
        /\ ret.value.success = FALSE
        /\ ret.value.error # ""
        /\ art = NoArt

C18_Witness ==
    /\ op = "batch_predict"
    /\ args = <<>>
    /\ ModelAvailable
    /\ ~ret.raised
    /\ ret.value.success = FALSE

(***************************************************************************)
(* C19.  The learned-model adapter feeds the artifact a row in the fixed   *)
(* training column order (Area, Bedrooms, Bathrooms, Floors, YearBuilt,    *)
(* Location, Condition, Garage), whatever the order of the keys of the     *)
(* record: a column missing from the record is there with the value 0, and *)
(* no other column is passed.                                              *)
(***************************************************************************)
TrainingColumns ==
    <<"Area", "Bedrooms", "Bathrooms", "Floors", "YearBuilt",
      "Location", "Condition", "Garage">>

\* predict_ml handed a frame to the artifact.
FrameHanded == op = "predict_ml" /\ ret.value.frame # NoFrame

C19_FixedColumnOrder ==
    FrameHanded =>
        /\ ret.value.frame.columns = TrainingColumns
        /\ \A i \in 1..Len(TrainingColumns) :
              (\A k \in DOMAIN args.features : Capitalized[k] # TrainingColumns[i])
                 => ret.value.frame.X[i] = IntV(0)

(***************************************************************************)
(* C20.  An authenticated request to the single-prediction endpoint with a *)
(* valid feature record, for which the engine returned a successful        *)
(* result, completes with status 200: no step after the engine's return    *)
(* turns it into a 5xx failure.                                            *)
(***************************************************************************)
\* The handler called ml_service.predict, which it does for authenticated
\* requests with a valid record only, and the engine returned success.
EngineSucceeded ==
    /\ http.endpoint = "predict"
    /\ http.engine_called
    /\ ~ret.raised
    /\ ret.value.success

C20_ValidRequestSucceeds == EngineSucceeded => http.status = 200

(***************************************************************************)
(* C21.  Bad requests are answered 400 before the engine is reached: an    *)
(* authenticated batch request whose properties list is empty or holds     *)
(* more than 100 records, and an authenticated single request whose        *)
(* features lack a required field, get status 400 and ml_service is not    *)
(* called.                                                                 *)
(***************************************************************************)
\* The request at hand is one of those the claim names.  args is the body
\* as sent when the engine was not called, and what the engine was given
\* otherwise.
BadRequest ==
    /\ http.credentials = "valid"
    /\ \/ /\ http.endpoint = "batch-predict"
          /\ Len(args) = 0 \/ Len(args) > BatchMaxLength
       \/ /\ http.endpoint = "predict"
          /\ LacksRequired(args)

C21_BadRequestIs400 ==
    BadRequest => http.status = 400 /\ ~http.engine_called

(***************************************************************************)
(* C22.  A request to predict, batch-predict or market-trends that carries *)
(* no valid bearer token (no Authorization header, a token that does not   *)
(* decode, a token naming no user) is answered 401 and ml_service is not   *)
(* called; the health probe is answered 200 whatever the request carries.  *)
(***************************************************************************)
ProtectedEndpoints == {"predict", "batch-predict", "market-trends"}

NoValidToken == http.credentials \in {"absent", "bad_token", "unknown_user"}

C22_NoTokenIs401 ==
    /\ http.endpoint \in ProtectedEndpoints /\ NoValidToken =>
          http.status = 401 /\ ~http.engine_called
    /\ http.endpoint = "health" => http.status = 200

(***************************************************************************)
(* C23.  Predictions never reload or change the shared model state: every  *)
(* step other than a load_model call, and so every predict, batch_predict, *)
(* predict_heuristic and get_market_trends call, whether made directly or  *)
(* by a request handler and whether or not the learned-model pass failed,  *)
(* leaves model, model_loaded and encoders as the last load_model call     *)
(* left them.                                                              *)
(***************************************************************************)
C23_PredictionsLeaveModelState ==
    [][op' # "load_model" =>
          /\ model' = model
          /\ model_loaded' = model_loaded
          /\ encoders' = encoders]_vars

\* A prediction whose learned-model pass raised has returned, and the model
\* is still loaded.
C23_Witness ==
    /\ op \in {"predict", "batch_predict"}
    /\ art.out = "raise"
    /\ model_loaded
    /\ model # NoModel
    /\ "Location" \in DOMAIN encoders

(***************************************************************************)
(* C24.  A reload never overlaps a prediction in flight: no predict or     *)
(* batch_predict call is between its first statement and its return while  *)
(* load_model is between its first write and its return, and a prediction  *)
(* that used the learned model read model_loaded, model and encoders from  *)
(* one state of the service, the one it leaves behind.                     *)
(***************************************************************************)
LoadWriting == tasks.load.wrote /\ tasks.load.pc # "idle"

PredictionInFlight == tasks.pred.pc # "idle"

PlainRecord ==
    ("area" :> IntV(1000)) @@ ("bedrooms" :> IntV(0)) @@ ("bathrooms" :> IntV(0))
        @@ ("floors" :> IntV(1)) @@ ("age" :> IntV(0))

BreakdownOf(f) == predict_heuristic(f).value.breakdown

\* Names put to the estimator: those of the tables and two of no table.
ProbedNames ==
    {s_urban, s_suburban, s_rural, s_excellent, s_good, s_fair, s_poor,
     <<"m", "a", "r", "s">>, <<"r", "u", "i", "n">>}

TrendsMatchEstimator(trends) ==
    /\ BreakdownOf(PlainRecord).areaContribution
          = PlainRecord["area"].n * trends.averagePricePerSqFt
    /\ \A name \in ProbedNames :
          /\ BreakdownOf(WithText(PlainRecord, "location", name)).locationPremium
                = IF name \in DOMAIN trends.locationPremiums
                  THEN trends.locationPremiums[name] ELSE 0
          /\ BreakdownOf(WithText(PlainRecord, "condition", name)).conditionAdjustment
                = IF name \in DOMAIN trends.conditionAdjustments
                  THEN trends.conditionAdjustments[name] ELSE 0
    /\ \A name \in DOMAIN trends.amenityValues :
          \E b \in {BreakdownOf(PlainRecord @@ ("amenities" :> ListV(<<name>>)))} :
             b.garageContribution + b.otherAmenitiesContribution
                = trends.amenityValues[name]

C25_TrendsAreTheCoefficients ==
    op = "get_market_trends" =>
        /\ ~ret.raised
        /\ ret.value.success
        /\ "lastUpdated" \in DOMAIN ret.value
        /\ DOMAIN ret.value.trends =
              {"averagePricePerSqFt", "locationPremiums",
               "conditionAdjustments", "amenityValues"}
        /\ TrendsMatchEstimator(ret.value.trends)

\* The trends were asked of a service that has a model loaded.
C25_Witness ==
    /\ op = "get_market_trends"
    /\ model_loaded
    /\ model # NoModel
    /\ ret.value.trends.locationPremiums[s_urban] = 50000
    /\ ret.value.trends.amenityValues[s_pool] = 25000

(***************************************************************************)
(* C26.  After a load_model call, the first one made by __init__ included, *)
(* model_loaded equals the value the call returned, whatever the state of  *)
(* the model file and of the encoder file; and model_loaded is true only   *)
(* while a model is held.  A reload that finds no model file returns False *)
(* and so leaves the service reporting the heuristic fallback.             *)
(***************************************************************************)
C26_FlagIsLastLoadResult ==
    /\ op \in {"__init__", "load_model"} => model_loaded = ret.value
    /\ model_loaded => model # NoModel

(***************************************************************************)
(* C27.  Batch equals single on the heuristic path: when batch_predict     *)
(* returns modelUsed = "heuristic" for a list of records, item i of its    *)
(* predictions holds record i unchanged as features and, as prediction,    *)
(* what predict_heuristic returns for record i alone.                      *)
(***************************************************************************)
C27_BatchEqualsSingle ==
    BatchReturned /\ ret.value.modelUsed = "heuristic" =>
        \A i \in 1..Len(args) :
            /\ ret.value.predictions[i].features = args[i]
            /\ ret.value.predictions[i].prediction
                  = predict_heuristic(args[i]).value

(***************************************************************************)
(* C28.  In the learned-model pass over a batch, the Location, Condition   *)
(* and Garage codes of a record do not depend on the other records: each   *)
(* row of the frame handed to the artifact has in these columns what the   *)
(* record gets when it is preprocessed alone, whatever values, recognised  *)
(* by the encoder or not, the other records hold.                          *)
(***************************************************************************)
\* Positions of the encoded columns in the frame of a dumped record.
EncodedPositions ==
    {c \in 1..Len(DumpOrder) :
        Capitalized[DumpOrder[c]] \in {"Location", "Condition", "Garage"}}

\* The row of the record r preprocessed alone.
RowAlone(r, classes) ==
    preprocess_features_batch(DumpOrder, <<r>>, classes).X[1]

C28_CodesIndependentOfOtherRecords ==
    op = "preprocess_features" =>
        \A i \in 1..Len(args.properties) :
            \A c \in EncodedPositions :
                ret.value.X[i][c] = RowAlone(args.properties[i], args.classes)[c]

(***************************************************************************)
(* C29.  The age term never raises the estimate: for every record the      *)
(* schema accepts (yearBuilt from 1800 to the current year + 5, or an age) *)
(* breakdown.ageAdjustment is at most 0.                                   *)
(***************************************************************************)
C29_AgeNeverRaises ==
    HeuristicReturned /\ ValidRecord(args) =>
        ret.value.breakdown.ageAdjustment <= 0

====
